---- MODULE Spec2Model ----
(***************************************************************************)
(* A model of pytracking (src/pytracking/tracking.py): the Configuration   *)
(* object with its copy-and-override merge, the tracking-data codec        *)
(* (JSON + URL-safe base64 or a Fernet token) and the module-level API     *)
(* that builds and parses tracking links.                                  *)
(*                                                                         *)
(* Text is a sequence of code points, a byte string a sequence of numbers  *)
(* 0..255.  Python's None is the empty tuple and a present value v is the  *)
(* one-element tuple <<v>>, so that None and the empty string differ.      *)
(***************************************************************************)
EXTENDS Integers, Sequences, FiniteSets, TLC

\* ------------------------------------------------------------------------
\* Python values
\* ------------------------------------------------------------------------

None == <<>>

Some(v) == <<v>>

IsNone(o) == Len(o) = 0

Val(o) == o[1]

\* F applied to the value v: the value of an expression, computed where it is
\* first written and named in what follows.
With(v, F(_)) == F(v)

\* The printable ASCII characters, from code point 32 on (the grave accent, 96,
\* is spelled out).
Ascii ==
  << " ", "!", "\"", "#", "$", "%", "&", "'", "(", ")", "*", "+", ",", "-", ".", "/",
     "0", "1", "2", "3", "4", "5", "6", "7", "8", "9", ":", ";", "<", "=", ">", "?",
     "@", "A", "B", "C", "D", "E", "F", "G", "H", "I", "J", "K", "L", "M", "N", "O",
     "P", "Q", "R", "S", "T", "U", "V", "W", "X", "Y", "Z", "[", "\\", "]", "^", "_",
     "grave", "a", "b", "c", "d", "e", "f", "g", "h", "i", "j", "k", "l", "m", "n", "o",
     "p", "q", "r", "s", "t", "u", "v", "w", "x", "y", "z", "{", "|", "}", "~" >>

OrdTable == [c \in {Ascii[i] : i \in 1..Len(Ascii)} |->
               31 + (CHOOSE i \in 1..Len(Ascii) : Ascii[i] = c)]

\* ord(c) of a one-character string.
Ord(c) == OrdTable[c]

\* The text whose characters are given one by one: Str(<<"a", "b">>) is "ab".
Str(cs) == [i \in 1..Len(cs) |-> Ord(cs[i])]

StartsWith(s, p) == Len(p) <= Len(s) /\ SubSeq(s, 1, Len(p)) = p

\* s[n:]
DropFirst(s, n) == SubSeq(s, n + 1, Len(s))

\* The least element of a non-empty set of numbers.
Least(S) == CHOOSE k \in S : \A j \in S : k <= j

\* The index of the first character of s, from index i on, that is in set cs;
\* Len(s) + 1 when there is none.
FindAny(s, i, cs) ==
  LET S == {k \in i..Len(s) : s[k] \in cs}
  IN  IF S = {} THEN Len(s) + 1 ELSE Least(S)

RECURSIVE ConcatMap(_, _, _, _)
\* f(s[lo]) \o ... \o f(s[hi])
ConcatMap(f(_), s, lo, hi) ==
  IF lo > hi THEN <<>>
  ELSE IF lo = hi THEN f(s[lo])
  ELSE LET mid == (lo + hi) \div 2
       IN  ConcatMap(f, s, lo, mid) \o ConcatMap(f, s, mid + 1, hi)

\* Tagged JSON / Python values.
JStr(s) == <<"str", s>>

JInt(n) == <<"int", n>>

JObj(d) == <<"obj", d>>

JArr(a) == <<"arr", a>>

JBool(b) == <<"bool", b>>

JNull == <<"null">>

JFloat(lexeme) == <<"float", lexeme>>

Tag(v) == v[1]

\* ------------------------------------------------------------------------
\* dict: the pairs <<key, value>> in insertion order, keys unique
\* ------------------------------------------------------------------------

EmptyDict == <<>>

DictKeys(d) == {d[i][1] : i \in 1..Len(d)}

DictHas(d, k) == \E i \in 1..Len(d) : d[i][1] = k

DictGet(d, k) == d[CHOOSE i \in 1..Len(d) : d[i][1] = k][2]

\* d[k] = v: an existing key keeps its place.
DictSet(d, k, v) ==
  IF DictHas(d, k)
    THEN [i \in 1..Len(d) |-> IF d[i][1] = k THEN <<k, v>> ELSE d[i]]
    ELSE Append(d, <<k, v>>)

RECURSIVE DictUpdate(_, _)
\* d.update(e)
DictUpdate(d, e) ==
  IF Len(e) = 0 THEN d
  ELSE DictUpdate(DictSet(d, e[1][1], e[1][2]), Tail(e))

\* d == e for two dicts: the same keys with the same values, in any order.
DictEq(d, e) ==
  /\ DictKeys(d) = DictKeys(e)
  /\ \A k \in DictKeys(d) : DictGet(d, k) = DictGet(e, k)

\* ------------------------------------------------------------------------
\* bytes <-> text, URL-safe base64 (the standard library, as called at
\* tracking.py 167-174 and 264-270)
\* ------------------------------------------------------------------------

\* The outcome of a call that may raise: Ok(v), or Raise(e) with e the
\* exception's name.
Ok(v) == [ok |-> TRUE, v |-> <<v>>, err |-> ""]

Raise(e) == [ok |-> FALSE, v |-> <<>>, err |-> e]

Got(r) == r.v[1]

IsCont(b) == b >= 128 /\ b <= 191

\* The number of bytes of the UTF-8 sequence that starts at b[i], 0 when
\* there is no well-formed one.
Utf8SeqLen(b, i) ==
  LET n == Len(b) - i + 1
      b1 == b[i]
      c(k) == IF k <= n THEN b[i + k - 1] ELSE 0
  IN  IF b1 < 128 THEN 1
      ELSE IF b1 >= 194 /\ b1 <= 223 /\ IsCont(c(2)) THEN 2
      ELSE IF b1 >= 224 /\ b1 <= 239 /\ IsCont(c(2)) /\ IsCont(c(3))
              /\ (b1 = 224 => c(2) >= 160) /\ (b1 = 237 => c(2) <= 159) THEN 3
      ELSE IF b1 >= 240 /\ b1 <= 244 /\ IsCont(c(2)) /\ IsCont(c(3)) /\ IsCont(c(4))
              /\ (b1 = 240 => c(2) >= 144) /\ (b1 = 244 => c(2) <= 143) THEN 4
      ELSE 0

Utf8CodePoint(b, i, n) ==
  IF n = 1 THEN b[i]
  ELSE IF n = 2 THEN (b[i] - 192) * 64 + (b[i + 1] - 128)
  ELSE IF n = 3 THEN (b[i] - 224) * 4096 + (b[i + 1] - 128) * 64 + (b[i + 2] - 128)
  ELSE (b[i] - 240) * 262144 + (b[i + 1] - 128) * 4096
         + (b[i + 2] - 128) * 64 + (b[i + 3] - 128)

RECURSIVE Utf8DecodeFrom(_, _)
\* The code points from b[i] on; a run of ASCII bytes is taken at once.
Utf8DecodeFrom(b, i) ==
  IF i > Len(b) THEN Ok(<<>>)
  ELSE LET j == FindAny(b, i, 128..255)
       IN  IF j > i
             THEN LET rest == Utf8DecodeFrom(b, j)
                  IN  IF rest.ok THEN Ok(SubSeq(b, i, j - 1) \o Got(rest)) ELSE rest
           ELSE LET n == Utf8SeqLen(b, i)
                IN  IF n = 0 THEN Raise("UnicodeDecodeError")
                    ELSE LET rest == Utf8DecodeFrom(b, i + n)
                         IN  IF rest.ok
                               THEN Ok(<<Utf8CodePoint(b, i, n)>> \o Got(rest))
                               ELSE rest

\* bytes.decode("utf-8")
Utf8Decode(b) == Utf8DecodeFrom(b, 1)

Utf8Bytes(c) ==
  IF c < 128 THEN <<c>>
  ELSE IF c < 2048 THEN <<192 + (c \div 64), 128 + (c % 64)>>
  ELSE IF c < 65536
    THEN <<224 + (c \div 4096), 128 + ((c \div 64) % 64), 128 + (c % 64)>>
  ELSE <<240 + (c \div 262144), 128 + ((c \div 4096) % 64),
         128 + ((c \div 64) % 64), 128 + (c % 64)>>

\* str.encode("utf-8")
Utf8Encode(s) == ConcatMap(Utf8Bytes, s, 1, Len(s))

\* "="
PadChar == Ord("=")

\* The character of the URL-safe alphabet for the six-bit value v.
B64Char(v) ==
  IF v < 26 THEN 65 + v
  ELSE IF v < 52 THEN 97 + (v - 26)
  ELSE IF v < 62 THEN 48 + (v - 52)
  ELSE IF v = 62 THEN 45
  ELSE 95

\* The six-bit value of a character, -1 for a character outside the alphabet.
\* urlsafe_b64decode maps "-" to "+" and "_" to "/" and then decodes the
\* standard alphabet, so "+" and "/" count as well.
B64Value(c) ==
  IF c >= 65 /\ c <= 90 THEN c - 65
  ELSE IF c >= 97 /\ c <= 122 THEN c - 97 + 26
  ELSE IF c >= 48 /\ c <= 57 THEN c - 48 + 52
  ELSE IF c = 45 \/ c = 43 THEN 62
  ELSE IF c = 95 \/ c = 47 THEN 63
  ELSE -1

\* base64.urlsafe_b64encode(b), as text: every three bytes give four
\* characters, and "=" fills the last four.
UrlsafeB64Encode(b) ==
  LET n     == Len(b)
      at(i) == IF i <= n THEN b[i] ELSE 0
  IN  [k \in 1..(4 * ((n + 2) \div 3)) |->
         LET g  == 3 * ((k - 1) \div 4)
             r  == (k - 1) % 4
         IN  IF r = 0 THEN B64Char(at(g + 1) \div 4)
             ELSE IF r = 1 THEN B64Char((at(g + 1) % 4) * 16 + (at(g + 2) \div 16))
             ELSE IF r = 2
               THEN IF g + 2 <= n
                      THEN B64Char((at(g + 2) % 16) * 4 + (at(g + 3) \div 64))
                      ELSE PadChar
             ELSE IF g + 3 <= n THEN B64Char(at(g + 3) % 64) ELSE PadChar]

\* binascii.a2b_base64 without strict mode, which reads the text character
\* by character.  Characters outside the alphabet are skipped.  With quad_pos
\* the number of alphabet characters read so far modulo 4 and pads the number
\* of "=" read since the last of them, a "=" read when quad_pos >= 2 and
\* quad_pos + pads >= 4 ends the input.  Every alphabet character read adds
\* six bits; when the text ends without such a "=", a group of four left
\* unfinished raises.
B64Decode(s) ==
  LET n       == Len(s)
      isData  == [i \in 1..n |-> B64Value(s[i]) >= 0]
      dataAt  == SelectSeq([i \in 1..n |-> i], LAMBDA i : isData[i])
      before(i) == Cardinality({j \in 1..Len(dataAt) : dataAt[j] < i})
      lastData(i) == IF before(i) = 0 THEN 0 ELSE dataAt[before(i)]
      pads(i) == Cardinality({j \in (lastData(i) + 1)..i : s[j] = PadChar})
      stops   == {i \in 1..n : /\ s[i] = PadChar
                               /\ before(i) % 4 >= 2
                               /\ (before(i) % 4) + pads(i) >= 4}
      count   == IF stops = {} THEN Len(dataAt) ELSE before(Least(stops))
      v(k)    == B64Value(s[dataAt[k]])
      nbytes  == 3 * (count \div 4)
                 + (IF count % 4 = 2 THEN 1 ELSE IF count % 4 = 3 THEN 2 ELSE 0)
  IN  IF stops = {} /\ count % 4 # 0 THEN Raise("binascii.Error")
      ELSE Ok([j \in 1..nbytes |->
                 LET g == 4 * ((j - 1) \div 3)
                     r == (j - 1) % 3
                 IN  IF r = 0 THEN v(g + 1) * 4 + (v(g + 2) \div 16)
                     ELSE IF r = 1 THEN (v(g + 2) % 16) * 16 + (v(g + 3) \div 4)
                     ELSE (v(g + 3) % 4) * 64 + v(g + 4)])

\* base64.urlsafe_b64decode(s)
UrlsafeB64Decode(s) == B64Decode(s)

\* ------------------------------------------------------------------------
\* json.dumps and json.loads (tracking.py 167 and 271), with their defaults
\* ------------------------------------------------------------------------

HexDigit(v) == IF v < 10 THEN 48 + v ELSE 97 + (v - 10)

\* \uXXXX
UEscape(c) ==
  << 92, 117, HexDigit(c \div 4096), HexDigit((c \div 256) % 16),
     HexDigit((c \div 16) % 16), HexDigit(c % 16) >>

\* One character inside a string literal (ensure_ascii is on).
DumpChar(c) ==
  IF c = 34 THEN <<92, 34>>
  ELSE IF c = 92 THEN <<92, 92>>
  ELSE IF c = 10 THEN <<92, 110>>
  ELSE IF c = 13 THEN <<92, 114>>
  ELSE IF c = 9 THEN <<92, 116>>
  ELSE IF c = 8 THEN <<92, 98>>
  ELSE IF c = 12 THEN <<92, 102>>
  ELSE IF c >= 32 /\ c <= 126 THEN <<c>>
  ELSE IF c < 65536 THEN UEscape(c)
  ELSE UEscape(55296 + ((c - 65536) \div 1024)) \o UEscape(56320 + (c % 1024))

DumpStr(s) == <<34>> \o ConcatMap(DumpChar, s, 1, Len(s)) \o <<34>>

RECURSIVE DumpNat(_)
DumpNat(n) ==
  IF n < 10 THEN <<48 + n>> ELSE Append(DumpNat(n \div 10), 48 + (n % 10))

DumpInt(n) == IF n < 0 THEN <<45>> \o DumpNat(0 - n) ELSE DumpNat(n)

RECURSIVE JsonDumps(_)
RECURSIVE DumpMembers(_, _)
RECURSIVE DumpElements(_, _)

\* "k": v, "k": v
DumpMembers(d, i) ==
  IF i > Len(d) THEN <<>>
  ELSE (IF i > 1 THEN <<44, 32>> ELSE <<>>)
       \o DumpStr(d[i][1]) \o <<58, 32>> \o JsonDumps(d[i][2])
       \o DumpMembers(d, i + 1)

DumpElements(a, i) ==
  IF i > Len(a) THEN <<>>
  ELSE (IF i > 1 THEN <<44, 32>> ELSE <<>>) \o JsonDumps(a[i])
       \o DumpElements(a, i + 1)

\* json.dumps(v)
JsonDumps(v) ==
  CASE Tag(v) = "str"  -> DumpStr(v[2])
    [] Tag(v) = "int"  -> DumpInt(v[2])
    [] Tag(v) = "bool" -> IF v[2] THEN Str(<<"t", "r", "u", "e">>)
                          ELSE Str(<<"f", "a", "l", "s", "e">>)
    [] Tag(v) = "null" -> Str(<<"n", "u", "l", "l">>)
    [] Tag(v) = "obj"  -> <<123>> \o DumpMembers(v[2], 1) \o <<125>>
    [] Tag(v) = "arr"  -> <<91>> \o DumpElements(v[2], 1) \o <<93>>

\* A parse step: the value read and the index after it, or a failure.
Parsed(v, i) == [ok |-> TRUE, v |-> <<v>>, i |-> i]

NoParse == [ok |-> FALSE, v |-> <<>>, i |-> 0]

At(s, i) == IF i >= 1 /\ i <= Len(s) THEN s[i] ELSE -1

IsWs(c) == c \in {32, 9, 10, 13}

IsDigit(c) == c >= 48 /\ c <= 57

HexValue(c) ==
  IF IsDigit(c) THEN c - 48
  ELSE IF c >= 97 /\ c <= 102 THEN c - 97 + 10
  ELSE IF c >= 65 /\ c <= 70 THEN c - 65 + 10
  ELSE -1

RECURSIVE SkipWs(_, _)
SkipWs(s, i) == IF IsWs(At(s, i)) THEN SkipWs(s, i + 1) ELSE i

LitAt(s, i, lit) == Len(s) >= i + Len(lit) - 1 /\ SubSeq(s, i, i + Len(lit) - 1) = lit

\* The value of the four hex digits at s[i..i+3], -1 when they are not all hex.
Hex4(s, i) ==
  LET h(k) == HexValue(At(s, i + k))
  IN  IF h(0) < 0 \/ h(1) < 0 \/ h(2) < 0 \/ h(3) < 0 THEN -1
      ELSE h(0) * 4096 + h(1) * 256 + h(2) * 16 + h(3)

SimpleEscape(c) ==
  CASE c = 34 -> 34 [] c = 92 -> 92 [] c = 47 -> 47 [] c = 98 -> 8
    [] c = 102 -> 12 [] c = 110 -> 10 [] c = 114 -> 13 [] c = 116 -> 9
    [] OTHER -> -1

RECURSIVE ScanString(_, _, _)
\* The string literal whose opening quote is before s[i]: the characters up
\* to the closing quote, a backslash or a control character are taken at
\* once.
ScanString(s, i, acc) ==
  LET j    == FindAny(s, i, {34, 92} \cup 0..31)
      c    == At(s, j)
      acc2 == acc \o SubSeq(s, i, j - 1)
  IN  IF c = 34 THEN Parsed(acc2, j + 1)
      ELSE IF c # 92 THEN NoParse
      ELSE LET e == At(s, j + 1)
           IN  IF e = 117
                 THEN LET u  == Hex4(s, j + 2)
                          lo == IF At(s, j + 6) = 92 /\ At(s, j + 7) = 117
                                  THEN Hex4(s, j + 8) ELSE -1
                      IN  IF u < 0 THEN NoParse
                          ELSE IF u >= 55296 /\ u <= 56319 /\ lo >= 56320 /\ lo <= 57343
                            THEN ScanString(s, j + 12,
                                   Append(acc2, 65536 + (u - 55296) * 1024 + (lo - 56320)))
                          ELSE ScanString(s, j + 6, Append(acc2, u))
               ELSE IF SimpleEscape(e) < 0 THEN NoParse
               ELSE ScanString(s, j + 2, Append(acc2, SimpleEscape(e)))

RECURSIVE ScanDigits(_, _)
\* The index after the digits that start at s[i].
ScanDigits(s, i) == IF IsDigit(At(s, i)) THEN ScanDigits(s, i + 1) ELSE i

RECURSIVE DigitsValue(_, _, _, _)
DigitsValue(s, i, j, acc) ==
  IF i >= j THEN acc ELSE DigitsValue(s, i + 1, j, acc * 10 + (s[i] - 48))

\* -?(0|[1-9]\d*)(\.\d+)?([eE][-+]?\d+)? at s[i]
ScanNumber(s, i) ==
  LET neg  == At(s, i) = 45
      d0   == IF neg THEN i + 1 ELSE i
      d1   == IF At(s, d0) = 48 THEN d0 + 1 ELSE ScanDigits(s, d0)
      f1   == IF At(s, d1) = 46 /\ IsDigit(At(s, d1 + 1))
                THEN ScanDigits(s, d1 + 1) ELSE d1
      e0   == IF At(s, f1 + 1) \in {43, 45} THEN f1 + 2 ELSE f1 + 1
      e1   == IF At(s, f1) \in {69, 101} /\ IsDigit(At(s, e0))
                THEN ScanDigits(s, e0) ELSE f1
      n    == DigitsValue(s, d0, d1, 0)
  IN  IF d1 = d0 THEN NoParse
      ELSE IF e1 = d1 THEN Parsed(JInt(IF neg THEN 0 - n ELSE n), d1)
      ELSE Parsed(JFloat(SubSeq(s, i, e1 - 1)), e1)

RECURSIVE ScanValue(_, _)
RECURSIVE ScanMembers(_, _, _)
RECURSIVE ScanElements(_, _, _)

\* After "{" or ",": s[i] must open a key.  A repeated key keeps the last
\* value.
ScanMembers(s, i, d) ==
  IF At(s, i) # 34 THEN NoParse
  ELSE With(ScanString(s, i + 1, <<>>), LAMBDA k :
         IF ~k.ok THEN NoParse
         ELSE With(SkipWs(s, k.i), LAMBDA c :
                IF At(s, c) # 58 THEN NoParse
                ELSE With(ScanValue(s, SkipWs(s, c + 1)), LAMBDA v :
                       IF ~v.ok THEN NoParse
                       ELSE With(SkipWs(s, v.i), LAMBDA e :
                              IF At(s, e) = 125
                                THEN Parsed(JObj(DictSet(d, k.v[1], v.v[1])), e + 1)
                              ELSE IF At(s, e) = 44
                                THEN ScanMembers(s, SkipWs(s, e + 1),
                                                 DictSet(d, k.v[1], v.v[1]))
                              ELSE NoParse))))

ScanElements(s, i, a) ==
  With(ScanValue(s, i), LAMBDA v :
    IF ~v.ok THEN NoParse
    ELSE With(SkipWs(s, v.i), LAMBDA e :
           IF At(s, e) = 93 THEN Parsed(JArr(Append(a, v.v[1])), e + 1)
           ELSE IF At(s, e) = 44
             THEN ScanElements(s, SkipWs(s, e + 1), Append(a, v.v[1]))
           ELSE NoParse))

\* json.scanner's scan_once at s[i]
ScanValue(s, i) ==
  LET c == At(s, i)
  IN  IF c = 34 THEN With(ScanString(s, i + 1, <<>>), LAMBDA r :
                          IF r.ok THEN Parsed(JStr(r.v[1]), r.i) ELSE NoParse)
      ELSE IF c = 123
        THEN LET j == SkipWs(s, i + 1)
             IN  IF At(s, j) = 125 THEN Parsed(JObj(EmptyDict), j + 1)
                 ELSE ScanMembers(s, j, EmptyDict)
      ELSE IF c = 91
        THEN LET j == SkipWs(s, i + 1)
             IN  IF At(s, j) = 93 THEN Parsed(JArr(<<>>), j + 1)
                 ELSE ScanElements(s, j, <<>>)
      ELSE IF LitAt(s, i, Str(<<"n", "u", "l", "l">>)) THEN Parsed(JNull, i + 4)
      ELSE IF LitAt(s, i, Str(<<"t", "r", "u", "e">>)) THEN Parsed(JBool(TRUE), i + 4)
      ELSE IF LitAt(s, i, Str(<<"f", "a", "l", "s", "e">>))
        THEN Parsed(JBool(FALSE), i + 5)
      ELSE With(ScanNumber(s, i), LAMBDA n :
             IF n.ok THEN n
             ELSE IF LitAt(s, i, Str(<<"N", "a", "N">>))
               THEN Parsed(JFloat(Str(<<"N", "a", "N">>)), i + 3)
             ELSE IF LitAt(s, i, Str(<<"I", "n", "f", "i", "n", "i", "t", "y">>))
               THEN Parsed(JFloat(SubSeq(s, i, i + 7)), i + 8)
             ELSE IF LitAt(s, i, Str(<<"-", "I", "n", "f", "i", "n", "i", "t", "y">>))
               THEN Parsed(JFloat(SubSeq(s, i, i + 8)), i + 9)
             ELSE NoParse)

\* json.loads(s): one value, white space around it, and nothing else.
JsonLoads(s) ==
  With(ScanValue(s, SkipWs(s, 1)), LAMBDA r :
    IF r.ok /\ SkipWs(s, r.i) = Len(s) + 1 THEN Ok(r.v[1])
    ELSE Raise("JSONDecodeError"))

\* ------------------------------------------------------------------------
\* cryptography.fernet.Fernet (imported at tracking.py 11).  The cipher is
\* ideal: a token opens under the key that made it and under no other.
\* The token keeps Fernet's layout, version byte 0x80 and an 8-byte
\* timestamp first; the IV, the ciphertext and the HMAC that follow are
\* modelled by the signing half of the key followed by the plaintext.
\* ------------------------------------------------------------------------

\* Fernet(key): the key is 32 bytes in URL-safe base64; the first half
\* signs, the second encrypts.
Fernet(key) ==
  With(UrlsafeB64Decode(key), LAMBDA r :
    IF ~r.ok \/ Len(Got(r)) # 32 THEN Raise("ValueError")
    ELSE Ok([signing_key |-> SubSeq(Got(r), 1, 16),
             encryption_key |-> SubSeq(Got(r), 17, 32)]))

\* The clock is not modelled: every token carries timestamp 0.
TimestampBytes == <<0, 0, 0, 0, 0, 0, 0, 0>>

\* f.encrypt(data): the token, as bytes of URL-safe base64
FernetEncrypt(f, data) ==
  UrlsafeB64Encode(<<128>> \o TimestampBytes \o f.signing_key \o data)

\* A decrypt that does not verify the token against the key.
FernetDecrypt_unverified(f, token) ==
  With(UrlsafeB64Decode(token), LAMBDA r :
    IF ~r.ok THEN Raise("InvalidToken")
    ELSE LET d == Got(r)
         IN  IF Len(d) < 25 \/ d[1] # 128 THEN Raise("InvalidToken")
             ELSE Ok(SubSeq(d, 26, Len(d))))

\* f.decrypt(token), without a ttl
FernetDecrypt(f, token) ==
  With(UrlsafeB64Decode(token), LAMBDA r :
    IF ~r.ok THEN Raise("InvalidToken")
    ELSE LET d == Got(r)
         IN  IF Len(d) = 0 \/ d[1] # 128 THEN Raise("InvalidToken")
             ELSE IF Len(d) < 9 THEN Raise("InvalidToken")
             ELSE IF Len(d) < 25 \/ SubSeq(d, 10, 25) # f.signing_key
               THEN Raise("InvalidToken")
             ELSE Ok(SubSeq(d, 26, Len(d))))

\* ------------------------------------------------------------------------
\* Configuration
\* ------------------------------------------------------------------------

\* bool(x) of an optional text, an optional dict or an optional key.
Truthy(o) == ~IsNone(o) /\ Len(Val(o)) > 0

DEFAULT_TIMEOUT_SECONDS == 5

\* The attributes __init__ sets from its defaults.  default_metadata holds a
\* reference to a dict object of the heap, 0 for None.  The encoding is
\* always the default, utf-8.
DefaultAttributes ==
  [ webhook_url               |-> None,
    webhook_timeout_seconds   |-> DEFAULT_TIMEOUT_SECONDS,
    include_webhook_url       |-> FALSE,
    base_open_tracking_url    |-> None,
    base_click_tracking_url   |-> None,
    default_metadata          |-> 0,
    include_default_metadata  |-> FALSE,
    encryption_bytestring_key |-> None,
    encryption_key            |-> None,
    append_slash              |-> FALSE,
    pixel_position            |-> Str(<<"t", "o", "p">>) ]

AttributeNames == DOMAIN DefaultAttributes

\* The parameters __init__ names; any other keyword goes to self.kwargs.
InitParameters == AttributeNames \ {"encryption_key"}

\* The objects of the program: cs, the Configuration objects (each the record
\* of its attributes), h, the dict objects, and r, the index in cs of the
\* object at hand (self, or the object just made).
World(cs, h, r) == [cs |-> cs, h |-> h, r |-> r]

\* setattr(w.cs[w.r], name, value).  A dict given by the caller is an object
\* of its own, entered in the heap.
SetAttr(w, name, value) ==
  IF name = "default_metadata" /\ ~IsNone(value)
    THEN World([w.cs EXCEPT ![w.r].default_metadata = Len(w.h) + 1],
               Append(w.h, Val(value)), w.r)
    ELSE World([w.cs EXCEPT ![w.r][name] =
                  IF name = "default_metadata" THEN 0 ELSE value],
               w.h, w.r)

\* Configuration.cache_encryption_key
cache_encryption_key(w) ==
  LET self == w.cs[w.r]
  IN  IF Truthy(self.encryption_bytestring_key)
        THEN With(Fernet(Val(self.encryption_bytestring_key)), LAMBDA f :
               IF f.ok
                 THEN Ok(World([w.cs EXCEPT ![w.r].encryption_key = Some(Got(f))],
                               w.h, w.r))
                 ELSE Raise(f.err))
        ELSE Ok(World([w.cs EXCEPT ![w.r].encryption_key = None], w.h, w.r))

RECURSIVE InitAttrs(_, _, _)
InitAttrs(w, args, i) ==
  IF i > Len(args) THEN w
  ELSE InitAttrs(IF args[i][1] \in InitParameters
                   THEN SetAttr(w, args[i][1], args[i][2]) ELSE w,
                 args, i + 1)

\* Configuration(**args): a new object.
Configuration(cs, h, args) ==
  cache_encryption_key(
    InitAttrs(World(Append(cs, DefaultAttributes), h, Len(cs) + 1), args, 1))

\* A copy that shares the dict of the original.
DeepcopyAttr_shallow(w, key, value) ==
  World([w.cs EXCEPT ![w.r][key] = value], w.h, w.r)

\* new_config.__dict__[key] = deepcopy(value): a dict is copied into a new
\* object, every other value is immutable.
DeepcopyAttr(w, key, value) ==
  IF key = "default_metadata" /\ value # 0
    THEN World([w.cs EXCEPT ![w.r].default_metadata = Len(w.h) + 1],
               Append(w.h, w.h[value]), w.r)
    ELSE World([w.cs EXCEPT ![w.r][key] = value], w.h, w.r)

\* The attributes in the order __init__ sets them.
AttributeOrder ==
  << "webhook_url", "webhook_timeout_seconds", "include_webhook_url",
     "base_open_tracking_url", "base_click_tracking_url", "default_metadata",
     "include_default_metadata", "encryption_bytestring_key", "encryption_key",
     "append_slash", "pixel_position" >>

RECURSIVE DeepcopyAttrs(_, _, _)
DeepcopyAttrs(w, self, i) ==
  IF i > Len(AttributeOrder) THEN w
  ELSE LET key == AttributeOrder[i]
       IN  DeepcopyAttrs(IF key # "encryption_key"
                           THEN DeepcopyAttr(w, key, w.cs[self][key]) ELSE w,
                         self, i + 1)

\* Configuration.__deepcopy__ of w.cs[w.r]: the copy is the object at hand
\* of the result.
Deepcopy(w) == DeepcopyAttrs(Got(Configuration(w.cs, w.h, <<>>)), w.r, 1)

RECURSIVE MergeAttrs(_, _, _)
MergeAttrs(w, kwargs, i) ==
  IF i > Len(kwargs) THEN w
  ELSE MergeAttrs(IF kwargs[i][1] \in AttributeNames
                    THEN SetAttr(w, kwargs[i][1], kwargs[i][2]) ELSE w,
                  kwargs, i + 1)

\* A merge that does not derive the key again.
merge_with_kwargs_uncached(w, kwargs) == Ok(MergeAttrs(Deepcopy(w), kwargs, 1))

\* Configuration.merge_with_kwargs of w.cs[w.r]
merge_with_kwargs(w, kwargs) ==
  cache_encryption_key(MergeAttrs(Deepcopy(w), kwargs, 1))

\* get_configuration(configuration, kwargs): configuration is 0 for None or
\* the index of a Configuration.
get_configuration(configuration, cs, h, kwargs) ==
  merge_with_kwargs(IF configuration # 0 THEN World(cs, h, configuration)
                    ELSE Got(Configuration(cs, h, <<>>)),
                    kwargs)

\* self.default_metadata, looked up in the heap: None or the dict.
DefaultMetadata(self, h) ==
  IF self.default_metadata = 0 THEN None ELSE Some(h[self.default_metadata])

KeyUrl == Str(<<"u", "r", "l">>)

KeyMetadata == Str(<<"m", "e", "t", "a", "d", "a", "t", "a">>)

KeyWebhook == Str(<<"w", "e", "b", "h", "o", "o", "k">>)

\* A payload whose default metadata is laid over the extra metadata.
get_data_to_embed_defaults_win(self, h, url_to_track, extra_metadata) ==
  LET d1 == IF Truthy(url_to_track)
              THEN DictSet(EmptyDict, KeyUrl, JStr(Val(url_to_track)))
              ELSE EmptyDict
      m1 == IF Truthy(extra_metadata)
              THEN DictUpdate(EmptyDict, Val(extra_metadata)) ELSE EmptyDict
      m2 == IF self.include_default_metadata /\ Truthy(DefaultMetadata(self, h))
              THEN DictUpdate(m1, Val(DefaultMetadata(self, h))) ELSE m1
      d2 == IF Len(m2) > 0 THEN DictSet(d1, KeyMetadata, JObj(m2)) ELSE d1
  IN  IF self.include_webhook_url /\ Truthy(self.webhook_url)
        THEN DictSet(d2, KeyWebhook, JStr(Val(self.webhook_url)))
        ELSE d2

\* Configuration.get_data_to_embed
get_data_to_embed(self, h, url_to_track, extra_metadata) ==
  LET d1 == IF Truthy(url_to_track)
              THEN DictSet(EmptyDict, KeyUrl, JStr(Val(url_to_track)))
              ELSE EmptyDict
      m1 == IF self.include_default_metadata /\ Truthy(DefaultMetadata(self, h))
              THEN DictUpdate(EmptyDict, Val(DefaultMetadata(self, h)))
              ELSE EmptyDict
      m2 == IF Truthy(extra_metadata) THEN DictUpdate(m1, Val(extra_metadata)) ELSE m1
      d2 == IF Len(m2) > 0 THEN DictSet(d1, KeyMetadata, JObj(m2)) ELSE d1
  IN  IF self.include_webhook_url /\ Truthy(self.webhook_url)
        THEN DictSet(d2, KeyWebhook, JStr(Val(self.webhook_url)))
        ELSE d2

\* An encoding that never encrypts.
get_url_encoded_data_str_unencrypted(self, data_to_embed) ==
  Got(Utf8Decode(UrlsafeB64Encode(Utf8Encode(JsonDumps(JObj(data_to_embed))))))

\* Configuration.get_url_encoded_data_str
get_url_encoded_data_str(self, data_to_embed) ==
  With(Utf8Encode(JsonDumps(JObj(data_to_embed))), LAMBDA json_byte_str :
    Got(Utf8Decode(IF ~IsNone(self.encryption_key)
                     THEN FernetEncrypt(Val(self.encryption_key), json_byte_str)
                     ELSE UrlsafeB64Encode(json_byte_str))))

RECURSIVE StripSlash_all(_)
\* Every leading slash is dropped.
StripSlash_all(encoded_url_path) ==
  IF StartsWith(encoded_url_path, <<47>>)
    THEN StripSlash_all(DropFirst(encoded_url_path, 1))
    ELSE encoded_url_path

\* Lines 260-261: one leading slash is dropped.
StripSlash(encoded_url_path) ==
  IF StartsWith(encoded_url_path, <<47>>) THEN DropFirst(encoded_url_path, 1)
  ELSE encoded_url_path

\* Lines 263-270: the payload text of a path, or the error raised.
DecodePayload(self, encoded_url_path) ==
  With(Utf8Encode(encoded_url_path), LAMBDA b :
    With(IF ~IsNone(self.encryption_key)
           THEN FernetDecrypt(Val(self.encryption_key), b)
           ELSE UrlsafeB64Decode(b),
         LAMBDA r : IF r.ok THEN Utf8Decode(Got(r)) ELSE r))

\* d.get(key): None when the key is missing or null.
PyGet(d, key) ==
  IF DictHas(d, key) /\ DictGet(d, key) # JNull THEN Some(DictGet(d, key)) ELSE None

\* An update that keeps the values metadata already has.
MetadataUpdate_keep(metadata, x) ==
  IF Tag(x) = "obj" THEN Ok(DictUpdate(x[2], metadata)) ELSE Raise("TypeError")

\* metadata.update(x) for a decoded JSON value x.  Only a dict has pairs to
\* add; an empty list or text adds nothing.  A list of pairs is not modelled
\* and raises like any other value.
MetadataUpdate(metadata, x) ==
  IF Tag(x) = "obj" THEN Ok(DictUpdate(metadata, x[2]))
  ELSE IF Tag(x) \in {"arr", "str"} /\ Len(x[2]) = 0 THEN Ok(metadata)
  ELSE IF Tag(x) = "str" THEN Raise("ValueError")
  ELSE Raise("TypeError")

\* TrackingResult(...)
TrackingResult(is_open_tracking, is_click_tracking, tracked_url, webhook_url, metadata, request_data, timestamp) ==
  [ is_open_tracking  |-> is_open_tracking,
    is_click_tracking |-> is_click_tracking,
    tracked_url       |-> tracked_url,
    webhook_url       |-> webhook_url,
    metadata          |-> metadata,
    request_data      |-> request_data,
    timestamp         |-> timestamp ]

\* A result whose webhook is the local one whenever there is one.
ResultOfPayload_local_webhook(self, h, payload, request_data, is_open, timestamp) ==
  With(JsonLoads(payload), LAMBDA data :
    IF ~data.ok THEN data
    ELSE IF Tag(Got(data)) # "obj" THEN Raise("AttributeError")
    ELSE LET d  == Got(data)[2]
             m0 == IF ~self.include_default_metadata
                      /\ Truthy(DefaultMetadata(self, h))
                     THEN DictUpdate(EmptyDict, Val(DefaultMetadata(self, h)))
                     ELSE EmptyDict
             m1 == IF DictHas(d, KeyMetadata)
                     THEN MetadataUpdate(m0, DictGet(d, KeyMetadata))
                     ELSE Ok(m0)
             webhook_url == IF IsNone(self.webhook_url) THEN PyGet(d, KeyWebhook)
                            ELSE Some(JStr(Val(self.webhook_url)))
         IN  IF ~m1.ok THEN m1
             ELSE Ok(TrackingResult(is_open, ~is_open, PyGet(d, KeyUrl),
                                    webhook_url, Got(m1), request_data, timestamp)))

\* Lines 271-291, from the payload text on.
ResultOfPayload(self, h, payload, request_data, is_open, timestamp) ==
  With(JsonLoads(payload), LAMBDA data :
    IF ~data.ok THEN data
    ELSE IF Tag(Got(data)) # "obj" THEN Raise("AttributeError")
    ELSE LET d  == Got(data)[2]
             m0 == IF ~self.include_default_metadata
                      /\ Truthy(DefaultMetadata(self, h))
                     THEN DictUpdate(EmptyDict, Val(DefaultMetadata(self, h)))
                     ELSE EmptyDict
             m1 == IF DictHas(d, KeyMetadata)
                     THEN MetadataUpdate(m0, DictGet(d, KeyMetadata))
                     ELSE Ok(m0)
             webhook_url == IF self.include_webhook_url THEN PyGet(d, KeyWebhook)
                            ELSE IF IsNone(self.webhook_url) THEN None
                            ELSE Some(JStr(Val(self.webhook_url)))
         IN  IF ~m1.ok THEN m1
             ELSE Ok(TrackingResult(is_open, ~is_open, PyGet(d, KeyUrl),
                                    webhook_url, Got(m1), request_data, timestamp)))

\* Lines 263-291: the result for a path whose leading slash is gone.
ResultOfSegment(self, h, segment, request_data, is_open, timestamp) ==
  With(DecodePayload(self, segment), LAMBDA payload :
    IF ~payload.ok THEN payload
    ELSE ResultOfPayload(self, h, Got(payload), request_data, is_open, timestamp))

\* Configuration.get_tracking_result
get_tracking_result(self, h, encoded_url_path, request_data, is_open, timestamp) ==
  ResultOfSegment(self, h, StripSlash(encoded_url_path), request_data, is_open,
                  timestamp)

\* Configuration.get_click_tracking_url_path: url[len(base):]
cfg_get_click_tracking_url_path(self, url) ==
  IF IsNone(self.base_click_tracking_url) THEN Raise("TypeError")
  ELSE Ok(DropFirst(url, Len(Val(self.base_click_tracking_url))))

\* Configuration.get_open_tracking_url_path
cfg_get_open_tracking_url_path(self, url) ==
  IF IsNone(self.base_open_tracking_url) THEN Raise("TypeError")
  ELSE Ok(DropFirst(url, Len(Val(self.base_open_tracking_url))))

\* ------------------------------------------------------------------------
\* urllib.parse.urljoin (tracking.py 188 and 203).  The reference joined to
\* the base is always an encoded data string: a non-empty text with none of
\* ":", "/", "?", "#" and ";", that is, a single relative path segment.
\* ------------------------------------------------------------------------

IsAlpha(c) == (c >= 65 /\ c <= 90) \/ (c >= 97 /\ c <= 122)

\* urllib.parse.scheme_chars
IsSchemeChar(c) == IsAlpha(c) \/ IsDigit(c) \/ c \in {43, 45, 46}

Lower(s) == [i \in 1..Len(s) |-> IF s[i] >= 65 /\ s[i] <= 90 THEN s[i] + 32 ELSE s[i]]

\* The schemes of urllib.parse.uses_relative that the model's base URLs use;
\* each of them is in uses_netloc and in uses_params as well.
uses_relative ==
  { <<>>, Str(<<"h", "t", "t", "p">>), Str(<<"h", "t", "t", "p", "s">>),
    Str(<<"f", "t", "p">>), Str(<<"f", "i", "l", "e">>) }

\* urlsplit(url): scheme, netloc, path, query and fragment.
\* The scheme of url, <<>> when it has none.
SplitScheme(url) ==
  LET i == FindAny(url, 1, {58})
  IN  IF /\ i > 1 /\ i <= Len(url) /\ IsAlpha(url[1])
         /\ \A k \in 1..(i - 1) : IsSchemeChar(url[k])
        THEN Some(Lower(SubSeq(url, 1, i - 1))) ELSE None

\* The netloc that opens u, <<>> when there is none.
SplitNetloc(u) ==
  IF StartsWith(u, <<47, 47>>)
    THEN Some(SubSeq(u, 3, FindAny(u, 3, {47, 63, 35}) - 1)) ELSE None

\* The path, query and fragment of what follows the netloc.
SplitPath(scheme, netloc, u) ==
  LET f  == FindAny(u, 1, {35})
      q  == FindAny(u, 1, {63, 35})
  IN  [ scheme   |-> scheme,
        netloc   |-> netloc,
        path     |-> SubSeq(u, 1, q - 1),
        query    |-> SubSeq(u, q + 1, f - 1),
        fragment |-> DropFirst(u, f) ]

\* urlsplit(url): scheme, netloc, path, query and fragment.
urlsplit(url) ==
  With(SplitScheme(url), LAMBDA scheme :
    With(IF IsNone(scheme) THEN url ELSE DropFirst(url, Len(Val(scheme)) + 1),
         LAMBDA u1 :
      With(SplitNetloc(u1), LAMBDA netloc :
        SplitPath(IF IsNone(scheme) THEN <<>> ELSE Val(scheme),
                  IF IsNone(netloc) THEN <<>> ELSE Val(netloc),
                  IF IsNone(netloc) THEN u1
                  ELSE DropFirst(u1, Len(Val(netloc)) + 2)))))

\* The index of the last "/" of s, 0 when there is none.
LastSlash(s) ==
  LET S == {k \in 1..Len(s) : s[k] = 47}
  IN  IF S = {} THEN 0 ELSE CHOOSE k \in S : \A j \in S : j <= k

\* urlparse's _splitparams: the path without the parameters of its last
\* segment.
PathWithoutParams(path) ==
  LET i == FindAny(path, LastSlash(path) + 1, {59})
  IN  SubSeq(path, 1, i - 1)

RECURSIVE Split(_, _)
\* s.split("/")
Split(s, i) ==
  LET j == FindAny(s, i, {47})
  IN  IF j > Len(s) THEN <<SubSeq(s, i, Len(s))>>
      ELSE <<SubSeq(s, i, j - 1)>> \o Split(s, j + 1)

RECURSIVE Join(_, _)
\* "/".join(parts)
Join(parts, i) ==
  IF i > Len(parts) THEN <<>>
  ELSE (IF i > 1 THEN <<47>> ELSE <<>>) \o parts[i] \o Join(parts, i + 1)

\* segments[1:-1] = filter(None, segments[1:-1])
DropEmptyInside(segments) ==
  LET n == Len(segments)
  IN  SelectSeq([i \in 1..n |-> <<i, segments[i]>>],
                LAMBDA e : e[1] = 1 \/ e[1] = n \/ Len(e[2]) > 0)

RECURSIVE ResolveDots(_, _, _)
\* The loop over the segments: ".." pops, "." is skipped.
ResolveDots(segments, i, resolved) ==
  IF i > Len(segments) THEN resolved
  ELSE LET seg == segments[i][2]
       IN  IF seg = <<46, 46>>
             THEN ResolveDots(segments, i + 1,
                              IF Len(resolved) > 0
                                THEN SubSeq(resolved, 1, Len(resolved) - 1)
                                ELSE resolved)
           ELSE IF seg = <<46>> THEN ResolveDots(segments, i + 1, resolved)
           ELSE ResolveDots(segments, i + 1, Append(resolved, seg))

\* urlunparse of a scheme, a netloc and a path, with no parameters, query or
\* fragment.
urlunparse(scheme, netloc, path) ==
  LET u1 == IF Len(netloc) > 0
               \/ (Len(scheme) > 0 /\ ~StartsWith(path, <<47, 47>>))
              THEN <<47, 47>> \o netloc
                   \o (IF Len(path) > 0 /\ path[1] # 47 THEN <<47>> ELSE <<>>)
                   \o path
              ELSE path
  IN  IF Len(scheme) > 0 THEN scheme \o <<58>> \o u1 ELSE u1

\* urljoin(base, url), base being None or a text
\* base_parts of urljoin: the segments of the base path, the last one
\* dropped when it is not empty.
BaseParts(parts) ==
  IF Len(parts[Len(parts)]) > 0 THEN SubSeq(parts, 1, Len(parts) - 1) ELSE parts

\* The path urljoin gives a relative path url joined to the base path bpath.
JoinPath(bpath, url) ==
  With(Join(ResolveDots(DropEmptyInside(Append(BaseParts(Split(bpath, 1)), url)),
                        1, <<>>), 1),
       LAMBDA resolved : IF Len(resolved) > 0 THEN resolved ELSE <<47>>)

\* urljoin(base, url), base being None or a text
urljoin(base, url) ==
  IF ~Truthy(base) THEN url
  ELSE With(urlsplit(Val(base)), LAMBDA b :
         IF b.scheme \notin uses_relative THEN url
         ELSE urlunparse(b.scheme, b.netloc,
                         JoinPath(PathWithoutParams(b.path), url)))

\* ------------------------------------------------------------------------
\* Building and reading tracking links
\* ------------------------------------------------------------------------

\* Configuration.get_open_tracking_url_from_data_str
get_open_tracking_url_from_data_str(self, data_str) ==
  With(urljoin(self.base_open_tracking_url, data_str), LAMBDA temp_url :
    IF self.append_slash THEN Append(temp_url, 47) ELSE temp_url)

\* Configuration.get_click_tracking_url_from_data_str
get_click_tracking_url_from_data_str(self, data_str) ==
  With(urljoin(self.base_click_tracking_url, data_str), LAMBDA temp_url :
    IF self.append_slash THEN Append(temp_url, 47) ELSE temp_url)

\* The attributes of the object at hand, default_metadata looked up: None or
\* the dict.
View(w) == [w.cs[w.r] EXCEPT !.default_metadata = DefaultMetadata(w.cs[w.r], w.h)]

\* What a call that builds a link leaves: the objects after it, the merged
\* configuration it used, the payload, the encoded data string and the URL
\* returned.
Built(w, data, data_str, url) ==
  [ok |-> TRUE, w |-> <<w>>, cfg |-> <<View(w)>>, data |-> data,
   data_str |-> data_str, url |-> url]

NotBuilt == [ok |-> FALSE, w |-> <<>>, cfg |-> <<>>, data |-> EmptyDict,
             data_str |-> <<>>, url |-> <<>>]

\* get_click_tracking_url(url_to_track, metadata, configuration, **kwargs),
\* through Configuration.get_click_tracking_url
get_click_tracking_url(url_to_track, metadata, configuration, cs, h, kwargs) ==
  With(get_configuration(configuration, cs, h, kwargs), LAMBDA o :
    IF ~o.ok THEN NotBuilt
    ELSE LET self == Got(o).cs[Got(o).r]
         IN  With(get_data_to_embed(self, Got(o).h, url_to_track, metadata),
                  LAMBDA data :
               With(get_url_encoded_data_str(self, data), LAMBDA data_str :
                 Built(Got(o), data, data_str,
                       get_click_tracking_url_from_data_str(self, data_str)))))

\* get_open_tracking_url(metadata, configuration, **kwargs), through
\* Configuration.get_open_tracking_url
get_open_tracking_url(metadata, configuration, cs, h, kwargs) ==
  With(get_configuration(configuration, cs, h, kwargs), LAMBDA o :
    IF ~o.ok THEN NotBuilt
    ELSE LET self == Got(o).cs[Got(o).r]
         IN  With(get_data_to_embed(self, Got(o).h, None, metadata), LAMBDA data :
               With(get_url_encoded_data_str(self, data), LAMBDA data_str :
                 Built(Got(o), data, data_str,
                       get_open_tracking_url_from_data_str(self, data_str)))))

\* What a call that reads a link leaves: the objects after it, the merged
\* configuration, the path handed to get_tracking_result, and the
\* TrackingResult or the error.
Read(w, path, out) == [ok |-> TRUE, w |-> <<w>>, cfg |-> <<View(w)>>,
                       path |-> path, out |-> out]

NotRead(e) == [ok |-> FALSE, w |-> <<>>, cfg |-> <<>>, path |-> <<>>, out |-> Raise(e)]

\* get_click_tracking_url_path(url, configuration, **kwargs)
get_click_tracking_url_path(url, configuration, cs, h, kwargs) ==
  With(get_configuration(configuration, cs, h, kwargs), LAMBDA o :
    IF ~o.ok THEN NotRead(o.err)
    ELSE Read(Got(o), url, cfg_get_click_tracking_url_path(Got(o).cs[Got(o).r], url)))

\* get_open_tracking_url_path(url, configuration, **kwargs)
get_open_tracking_url_path(url, configuration, cs, h, kwargs) ==
  With(get_configuration(configuration, cs, h, kwargs), LAMBDA o :
    IF ~o.ok THEN NotRead(o.err)
    ELSE Read(Got(o), url, cfg_get_open_tracking_url_path(Got(o).cs[Got(o).r], url)))

\* Lines 438-442: the path handed to get_tracking_result.
ClickPath(w, encoded_url_path) ==
  IF Truthy(w.cs[w.r].base_click_tracking_url)
     /\ StartsWith(encoded_url_path, Val(w.cs[w.r].base_click_tracking_url))
    THEN Got(get_click_tracking_url_path(encoded_url_path, w.r, w.cs, w.h, <<>>).out)
    ELSE encoded_url_path

\* Lines 479-483
OpenPath(w, encoded_url_path) ==
  IF Truthy(w.cs[w.r].base_open_tracking_url)
     /\ StartsWith(encoded_url_path, Val(w.cs[w.r].base_open_tracking_url))
    THEN Got(get_open_tracking_url_path(encoded_url_path, w.r, w.cs, w.h, <<>>).out)
    ELSE encoded_url_path

\* get_click_tracking_result(encoded_url_path, request_data, configuration,
\* **kwargs)
get_click_tracking_result(encoded_url_path, request_data, configuration, cs, h, kwargs, timestamp) ==
  With(get_configuration(configuration, cs, h, kwargs), LAMBDA o :
    IF ~o.ok THEN NotRead(o.err)
    ELSE LET w == Got(o)
         IN  With(ClickPath(w, encoded_url_path), LAMBDA path :
               Read(w, path,
                    get_tracking_result(w.cs[w.r], w.h, path, request_data, FALSE,
                                        timestamp))))

\* get_open_tracking_result(encoded_url_path, request_data, configuration,
\* **kwargs)
get_open_tracking_result(encoded_url_path, request_data, configuration, cs, h, kwargs, timestamp) ==
  With(get_configuration(configuration, cs, h, kwargs), LAMBDA o :
    IF ~o.ok THEN NotRead(o.err)
    ELSE LET w == Got(o)
         IN  With(OpenPath(w, encoded_url_path), LAMBDA path :
               Read(w, path,
                    get_tracking_result(w.cs[w.r], w.h, path, request_data, TRUE,
                                        timestamp))))

\* ------------------------------------------------------------------------
\* pytracking.html: the document tree (lxml.html, as called at html.py 42,
\* 61, 77-85 and 50)
\* ------------------------------------------------------------------------

\* The names of tags and attributes met below.
TagHtml == Str(<<"h", "t", "m", "l">>)

TagHead == Str(<<"h", "e", "a", "d">>)

TagBody == Str(<<"b", "o", "d", "y">>)

TagDiv == Str(<<"d", "i", "v">>)

TagSpan == Str(<<"s", "p", "a", "n">>)

TagP == Str(<<"p">>)

TagA == Str(<<"a">>)

TagImg == Str(<<"i", "m", "g">>)

TagLink == Str(<<"l", "i", "n", "k">>)

Href == Str(<<"h", "r", "e", "f">>)

Src == Str(<<"s", "r", "c">>)

\* html.Element(tag, attrib): an element with no text, no children and no
\* tail.  The elements of a document are kept in a sequence, an element is
\* its index there, and children holds the indices of its child elements in
\* order; text is the text before the first child and tail the text after
\* the element.
Element(tag, attrib) ==
  [tag |-> tag, attrib |-> attrib, text |-> <<>>, children |-> <<>>, tail |-> <<>>]

\* An element with text, children and tail, as the parser leaves it.
Node(tag, attrib, text, children, tail) ==
  [tag |-> tag, attrib |-> attrib, text |-> text, children |-> children, tail |-> tail]

RECURSIVE Iter(_, _)
RECURSIVE IterEach(_, _, _)
\* element.iter(): the element and its descendants in document order.
Iter(els, element) == <<element>> \o IterEach(els, els[element].children, 1)

IterEach(els, children, i) ==
  IF i > Len(children) THEN <<>>
  ELSE Iter(els, children[i]) \o IterEach(els, children, i + 1)

\* Whether text.strip() is empty: only spaces.
Blank(text) == \A i \in 1..Len(text) : text[i] = 32

\* Tags of lxml's block-level elements that occur here.
block_tags == {TagP, TagDiv}

\* html.fromstring(html_text), line 42.  html_text is given as what the
\* parser makes of the text: els, the elements of the document it builds
\* (element 1 is the html element, which the parser supplies with a body
\* when the text has none), and full, whether the text begins as a whole
\* document (a doctype or an html tag).  A whole document, or one with a
\* head, is returned by its html element; of any other text the body's only
\* child is returned, still a child of that body, or, when the body holds
\* more than one element or text of its own, the body itself, renamed div
\* or span.
fromstring(html_text) ==
  LET els    == html_text.els
      bodies == SelectSeq(els[1].children, LAMBDA e : els[e].tag = TagBody)
      heads  == SelectSeq(els[1].children, LAMBDA e : els[e].tag = TagHead)
      body   == bodies[1]
      last   == els[body].children[Len(els[body].children)]
  IN  IF html_text.full \/ Len(heads) > 0 \/ Len(bodies) = 0
        THEN [els |-> els, tree |-> 1]
      ELSE IF /\ Len(els[body].children) = 1
              /\ Blank(els[body].text) /\ Blank(els[last].tail)
        THEN [els |-> els, tree |-> els[body].children[1]]
      ELSE [ els  |-> [els EXCEPT ![body].tag =
                         IF \E k \in 1..Len(Iter(els, body)) :
                              els[Iter(els, body)[k]].tag \in block_tags
                           THEN TagDiv ELSE TagSpan],
             tree |-> body ]

\* The attributes lxml reads links from, those that occur here.
link_attrs == {Href, Src}

RECURSIVE LinksFrom(_, _, _)
\* tree.iterlinks(), line 61: for every element of the tree in document
\* order, each attribute of link_attrs it has, as <<element, attribute,
\* link>>.
LinksFrom(els, elements, i) ==
  IF i > Len(elements) THEN <<>>
  ELSE LET attrib == els[elements[i]].attrib
           here   == SelectSeq(attrib, LAMBDA kv : kv[1] \in link_attrs)
       IN  [k \in 1..Len(here) |-> <<elements[i], here[k][1], here[k][2]>>]
           \o LinksFrom(els, elements, i + 1)

iterlinks(els, tree) == LinksFrom(els, Iter(els, tree), 1)

\* The builds of lxml differ in what tree.body is when the document has no
\* body element: the property ends with xpath(...)[0] and raises IndexError,
\* or it returns None.
LxmlBuilds == {"IndexError", "None"}

\* tree.body of line 79-83: the first body element of the document the tree
\* belongs to, wherever the tree is in it; 0 stands for None.
body(els, lxml) ==
  With(SelectSeq(Iter(els, 1), LAMBDA e : els[e].tag = TagBody), LAMBDA found :
    IF Len(found) > 0 THEN Ok(found[1])
    ELSE IF lxml = "None" THEN Ok(0)
    ELSE Raise(lxml))

\* parent.insert(0, child)
InsertFirst(els, parent, child) ==
  [els EXCEPT ![parent].children = <<child>> \o @]

\* parent.append(child)
AppendLast(els, parent, child) ==
  [els EXCEPT ![parent].children = Append(@, child)]

RECURSIVE tostring(_, _)
\* html.tostring(tree, ...), line 50: the text returned is that of the
\* tree's element, its descendants and its tail, and of nothing around it.
\* It is kept as the nested elements it spells.
tostring(els, tree) ==
  [ tag      |-> els[tree].tag,
    attrib   |-> els[tree].attrib,
    text     |-> els[tree].text,
    children |-> [k \in 1..Len(els[tree].children) |->
                    tostring(els, els[tree].children[k])],
    tail     |-> els[tree].tail ]

\* ------------------------------------------------------------------------
\* pytracking.html
\* ------------------------------------------------------------------------

DEFAULT_ATTRIBUTES ==
  << <<Str(<<"b", "o", "r", "d", "e", "r">>), Str(<<"0">>)>>,
     <<Str(<<"w", "i", "d", "t", "h">>), Str(<<"0">>)>>,
     <<Str(<<"h", "e", "i", "g", "h", "t">>), Str(<<"0">>)>>,
     <<Str(<<"a", "l", "t">>), <<>> >> >>

_valid_scheme ==
  << Str(<<"h", "t", "t", "p", ":", "/", "/">>),
     Str(<<"h", "t", "t", "p", "s", ":", "/", "/">>),
     Str(<<"/", "/">>) >>

\* A check that leaves the click-tracking base URL out.
_valid_link_any_base(link, configuration) ==
  \E k \in 1..Len(_valid_scheme) : StartsWith(link, _valid_scheme[k])

\* _valid_link(link, configuration), configuration being a Configuration
_valid_link(link, configuration) ==
  LET is_valid == \E k \in 1..Len(_valid_scheme) : StartsWith(link, _valid_scheme[k])
  IN  IF Truthy(configuration.base_click_tracking_url)
        THEN is_valid /\ ~StartsWith(link, Val(configuration.base_click_tracking_url))
        ELSE is_valid

\* What the steps of adapt_html leave: the objects and the document.
Adapted(w, els) == Ok([w |-> w, els |-> els])

RECURSIVE ReplaceLinks(_, _, _, _, _)
\* The loop of _replace_links from the i-th link on.  w is the world with
\* the configuration at hand; every call of get_click_tracking_url merges a
\* copy of it, which is dropped when the call returns.
ReplaceLinks(w, els, links, i, extra_metadata) ==
  IF i > Len(links) THEN Adapted(w, els)
  ELSE LET element   == links[i][1]
           attribute == links[i][2]
           link      == links[i][3]
       IN  IF /\ els[element].tag = TagA /\ attribute = Href
              /\ _valid_link(link, w.cs[w.r])
             THEN With(get_click_tracking_url(Some(link), extra_metadata,
                                              w.r, w.cs, w.h, <<>>),
                       LAMBDA new_link :
                    IF ~new_link.ok THEN Raise("Exception")
                    ELSE ReplaceLinks(
                           World(new_link.w[1].cs, new_link.w[1].h, w.r),
                           [els EXCEPT ![element].attrib =
                              DictSet(@, Href, new_link.url)],
                           links, i + 1, extra_metadata))
             ELSE ReplaceLinks(w, els, links, i + 1, extra_metadata)

\* _replace_links(tree, extra_metadata, configuration)
_replace_links(w, els, tree, extra_metadata) ==
  ReplaceLinks(w, els, iterlinks(els, tree), 1, extra_metadata)

\* _add_tracking_pixel(tree, extra_metadata, configuration).  hasattr(tree,
\* 'body') reads tree.body: it is true when that returns, None included,
\* false when it raises AttributeError, and any other exception goes on to
\* the caller.
_add_tracking_pixel(w, els, tree, extra_metadata, lxml) ==
  With(get_open_tracking_url(extra_metadata, w.r, w.cs, w.h, <<>>), LAMBDA url :
    IF ~url.ok THEN Raise("Exception")
    ELSE LET pixel == Len(els) + 1
             made  == Append(els, Element(TagImg, << <<Src, url.url>> >>))
             after == World(url.w[1].cs, url.w[1].h, w.r)
             found == body(made, lxml)
         IN  IF ~found.ok
               THEN IF found.err = "AttributeError"
                      THEN Adapted(after, InsertFirst(made, tree, pixel))
                      ELSE Raise(found.err)
             ELSE IF Got(found) = 0 THEN Raise("AttributeError")
             ELSE IF w.cs[w.r].pixel_position = Str(<<"t", "o", "p">>)
               THEN Adapted(after, InsertFirst(made, Got(found), pixel))
               ELSE Adapted(after, AppendLast(made, Got(found), pixel)))

\* What adapt_html leaves: the objects after it, the merged configuration,
\* the tree fromstring returned, and the text returned or the error.
Page(w, cfg, tree, out) == [ok |-> TRUE, w |-> <<w>>, cfg |-> <<cfg>>, tree |-> tree, out |-> out]

NoPageMade == [ok |-> FALSE, w |-> <<>>, cfg |-> <<>>, tree |-> 0, out |-> Raise("none")]

\* adapt_html(html_text, extra_metadata, click_tracking, open_tracking,
\* configuration, **kwargs)
adapt_html(html_text, extra_metadata, click_tracking, open_tracking, configuration, cs, h, kwargs, lxml) ==
  With(get_configuration(configuration, cs, h, kwargs), LAMBDA o :
    IF ~o.ok THEN NoPageMade
    ELSE With(fromstring(html_text), LAMBDA parsed :
      With(IF click_tracking
             THEN _replace_links(Got(o), parsed.els, parsed.tree, extra_metadata)
             ELSE Adapted(Got(o), parsed.els),
           LAMBDA linked :
        With(IF linked.ok /\ open_tracking
               THEN _add_tracking_pixel(Got(linked).w, Got(linked).els, parsed.tree,
                                        extra_metadata, lxml)
               ELSE linked,
             LAMBDA pixeled :
          Page(IF pixeled.ok THEN Got(pixeled).w ELSE Got(o), View(Got(o)), parsed.tree,
               IF pixeled.ok THEN Ok(tostring(Got(pixeled).els, parsed.tree))
               ELSE Raise(pixeled.err))))))


\* ------------------------------------------------------------------------
\* The program's state and the calls a caller makes
\* ------------------------------------------------------------------------

VARIABLES
  cfgs,     \* the Configuration objects the caller holds
  dicts,    \* the dict objects they refer to (default_metadata)
  origin,   \* for each Configuration, the one it was merged from, 0 for none
  link,     \* the last tracking link built
  res,      \* the last tracking link read
  page      \* the last HTML document adapted

vars == <<cfgs, dicts, origin, link, res, page>>

\* A caller holds at most this many Configuration objects.
MaxConfigs == 2

NoLink ==
  [ op |-> "none", cfg |-> View(World(<<DefaultAttributes>>, <<>>, 1)),
    url_to_track |-> None, metadata |-> None, data |-> EmptyDict,
    data_str |-> <<>>, url |-> <<>> ]

NoRes ==
  [ op |-> "none", cfg |-> View(World(<<DefaultAttributes>>, <<>>, 1)),
    form |-> "none", input |-> <<>>, path |-> <<>>, out |-> Raise("none") ]

\* No document was adapted yet.
NoPage ==
  [ op |-> "none", cfg |-> View(World(<<DefaultAttributes>>, <<>>, 1)),
    html |-> <<>>, tree |-> 0, extra_metadata |-> None, click_tracking |-> FALSE,
    open_tracking |-> FALSE, out |-> Raise("none") ]

Idle == link.op = "none" /\ res.op = "none" /\ page.op = "none"

Init ==
  /\ cfgs = <<>>
  /\ dicts = <<>>
  /\ origin = <<>>
  /\ link = NoLink
  /\ res = NoRes
  /\ page = NoPage

\* The objects the caller still holds after a call that returned the object
\* at hand of w: the n Configurations and m dicts it held before, and the new
\* object with its dict.
KeepNew(w, n, m) ==
  LET c   == w.cs[w.r]
      own == c.default_metadata > m
  IN  [ cs |-> IF w.r > n
                 THEN Append(SubSeq(w.cs, 1, n),
                             IF own THEN [c EXCEPT !.default_metadata = m + 1] ELSE c)
                 ELSE SubSeq(w.cs, 1, n),
        h  |-> IF own THEN Append(SubSeq(w.h, 1, m), w.h[c.default_metadata])
               ELSE SubSeq(w.h, 1, m) ]

\* configuration = Configuration(**args)
Construct(args) ==
  /\ Idle
  /\ Len(cfgs) < MaxConfigs
  /\ \E o \in {Configuration(cfgs, dicts, args)} :
       /\ o.ok
       /\ cfgs' = KeepNew(Got(o), Len(cfgs), Len(dicts)).cs
       /\ dicts' = KeepNew(Got(o), Len(cfgs), Len(dicts)).h
  /\ origin' = Append(origin, 0)
  /\ UNCHANGED <<link, res, page>>

\* merged = get_configuration(cfgs[i], kwargs), kept by the caller
GetConfiguration(i, kwargs) ==
  /\ Idle
  /\ Len(cfgs) < MaxConfigs
  /\ \E o \in {get_configuration(i, cfgs, dicts, kwargs)} :
       /\ o.ok
       /\ cfgs' = KeepNew(Got(o), Len(cfgs), Len(dicts)).cs
       /\ dicts' = KeepNew(Got(o), Len(cfgs), Len(dicts)).h
  /\ origin' = Append(origin, i)
  /\ UNCHANGED <<link, res, page>>

\* cfgs[i].default_metadata[key] = value, by the caller
SetDefaultMetadataItem(i, key, value) ==
  /\ Idle
  /\ cfgs[i].default_metadata # 0
  /\ ~DictHas(dicts[cfgs[i].default_metadata], key)
  /\ dicts' = [dicts EXCEPT ![cfgs[i].default_metadata] = DictSet(@, key, value)]
  /\ UNCHANGED <<cfgs, origin, link, res, page>>

\* The objects the caller holds after a call that returned none of them.
Held(w) == [cs |-> SubSeq(w.cs, 1, Len(cfgs)), h |-> SubSeq(w.h, 1, Len(dicts))]

\* link = get_click_tracking_url(url_to_track, metadata, cfgs[i], **kwargs)
GetClickTrackingUrl(i, kwargs, url_to_track, metadata) ==
  /\ Idle
  /\ \E b \in {get_click_tracking_url(url_to_track, metadata, i, cfgs, dicts, kwargs)} :
       /\ b.ok
       /\ link' = [ op |-> "click", cfg |-> b.cfg[1], url_to_track |-> url_to_track,
                    metadata |-> metadata, data |-> b.data, data_str |-> b.data_str,
                    url |-> b.url ]
       /\ cfgs' = Held(b.w[1]).cs
       /\ dicts' = Held(b.w[1]).h
  /\ UNCHANGED <<origin, res, page>>

\* link = get_open_tracking_url(metadata, cfgs[i], **kwargs)
GetOpenTrackingUrl(i, kwargs, metadata) ==
  /\ Idle
  /\ \E b \in {get_open_tracking_url(metadata, i, cfgs, dicts, kwargs)} :
       /\ b.ok
       /\ link' = [ op |-> "open", cfg |-> b.cfg[1], url_to_track |-> None,
                    metadata |-> metadata, data |-> b.data, data_str |-> b.data_str,
                    url |-> b.url ]
       /\ cfgs' = Held(b.w[1]).cs
       /\ dicts' = Held(b.w[1]).h
  /\ UNCHANGED <<origin, res, page>>

\* res = get_click_tracking_result(input, None, cfgs[i], **kwargs)
GetClickTrackingResult(i, kwargs, form, input) ==
  /\ res.op = "none"
  /\ \E r \in {get_click_tracking_result(input, None, i, cfgs, dicts, kwargs, 0)} :
       /\ r.ok
       /\ res' = [ op |-> "click", cfg |-> r.cfg[1], form |-> form, input |-> input,
                   path |-> r.path, out |-> r.out ]
       /\ cfgs' = Held(r.w[1]).cs
       /\ dicts' = Held(r.w[1]).h
  /\ UNCHANGED <<origin, link, page>>

\* res = get_open_tracking_result(input, None, cfgs[i], **kwargs)
GetOpenTrackingResult(i, kwargs, form, input) ==
  /\ res.op = "none"
  /\ \E r \in {get_open_tracking_result(input, None, i, cfgs, dicts, kwargs, 0)} :
       /\ r.ok
       /\ res' = [ op |-> "open", cfg |-> r.cfg[1], form |-> form, input |-> input,
                   path |-> r.path, out |-> r.out ]
       /\ cfgs' = Held(r.w[1]).cs
       /\ dicts' = Held(r.w[1]).h
  /\ UNCHANGED <<origin, link, page>>

\* res = get_click_tracking_url_path(url, cfgs[i], **kwargs)
GetClickTrackingUrlPath(i, kwargs, url) ==
  /\ res.op = "none"
  /\ \E r \in {get_click_tracking_url_path(url, i, cfgs, dicts, kwargs)} :
       /\ r.ok
       /\ res' = [ op |-> "click_path", cfg |-> r.cfg[1], form |-> "url",
                   input |-> url, path |-> r.path, out |-> r.out ]
       /\ cfgs' = Held(r.w[1]).cs
       /\ dicts' = Held(r.w[1]).h
  /\ UNCHANGED <<origin, link, page>>

\* res = get_open_tracking_url_path(url, cfgs[i], **kwargs)
GetOpenTrackingUrlPath(i, kwargs, url) ==
  /\ res.op = "none"
  /\ \E r \in {get_open_tracking_url_path(url, i, cfgs, dicts, kwargs)} :
       /\ r.ok
       /\ res' = [ op |-> "open_path", cfg |-> r.cfg[1], form |-> "url",
                   input |-> url, path |-> r.path, out |-> r.out ]
       /\ cfgs' = Held(r.w[1]).cs
       /\ dicts' = Held(r.w[1]).h
  /\ UNCHANGED <<origin, link, page>>

\* The caller drops the link, the result and the document.
Forget ==
  /\ ~Idle
  /\ link' = NoLink
  /\ res' = NoRes
  /\ page' = NoPage
  /\ UNCHANGED <<cfgs, dicts, origin>>

\* page = adapt_html(html_text, extra_metadata, click_tracking,
\* open_tracking, cfgs[i], **kwargs), run with a build of lxml
AdaptHtml(i, kwargs, html_text, extra_metadata, click_tracking, open_tracking, lxml) ==
  /\ Idle
  /\ \E a \in {adapt_html(html_text, extra_metadata, click_tracking, open_tracking,
                          i, cfgs, dicts, kwargs, lxml)} :
       /\ a.ok
       /\ page' = [ op |-> "adapt", cfg |-> a.cfg[1], html |-> html_text,
                    tree |-> a.tree, extra_metadata |-> extra_metadata,
                    click_tracking |-> click_tracking,
                    open_tracking |-> open_tracking, out |-> a.out ]
       /\ cfgs' = Held(a.w[1]).cs
       /\ dicts' = Held(a.w[1]).h
  /\ UNCHANGED <<origin, link, res>>

\* ------------------------------------------------------------------------
\* The values the calls are made with
\* ------------------------------------------------------------------------

\* Two Fernet keys, 32 bytes each in URL-safe base64, and a text that is no
\* key.
Key1 == UrlsafeB64Encode([i \in 1..32 |-> 1])

Key2 == UrlsafeB64Encode([i \in 1..32 |-> 2])

BadKey == Str(<<"b", "a", "d">>)

\* "https://t.example/c/" and the same without its last slash
BaseSlash ==
  Str(<< "h", "t", "t", "p", "s", ":", "/", "/", "t", ".", "e", "x", "a", "m", "p",
         "l", "e", "/", "c", "/" >>)

BaseNoSlash == SubSeq(BaseSlash, 1, Len(BaseSlash) - 1)

\* "http://a"
TrackedUrl == Str(<<"h", "t", "t", "p", ":", "/", "/", "a">>)

\* {"a": 1}
MetaA1 == << <<Str(<<"a">>), JInt(1)>> >>

\* {"a": 2, "b": 3}
MetaA2B3 == << <<Str(<<"a">>), JInt(2)>>, <<Str(<<"b">>), JInt(3)>> >>

\* {"s": "x\"y" followed by e-acute (233) and an emoji (128512),
\*  "n": [true, null, {"x": -5}]}
MetaRich ==
  << <<Str(<<"s">>), JStr(Str(<<"x", "\"", "y">>) \o <<233, 128512>>)>>,
     <<Str(<<"n">>),
       JArr(<<JBool(TRUE), JNull, JObj(<< <<Str(<<"x">>), JInt(0 - 5)>> >>)>>)>> >>

\* {"z": 0}
MetaZ0 == << <<Str(<<"z">>), JInt(0)>> >>

Webhook == Str(<<"w">>)

\* Texts that are not links built by this program: the base64 of a JSON text
\* (an object, values that are no object, a text that is no JSON), the same
\* with characters outside the alphabet added, with its padding cut, and the
\* empty text.
JsonTexts ==
  << Str(<<"{", "}">>), Str(<<"[", "]">>), Str(<<"1">>),
     Str(<<"n", "u", "l", "l">>), Str(<<"\"", "x", "\"">>), Str(<<"{">>) >>

B64Of(text) == UrlsafeB64Encode(Utf8Encode(text))

RawSegments ==
  [k \in 1..Len(JsonTexts) |-> B64Of(JsonTexts[k])]
  \o << B64Of(JsonTexts[1]) \o Str(<<"!", "!">>),
        Str(<<"!">>) \o B64Of(JsonTexts[1]),
        SubSeq(B64Of(JsonTexts[1]), 1, 3),
        <<>>,
        B64Of(JsonTexts[1]) \o <<47>>,
        SubSeq(UrlsafeB64Encode(<<128, 0, 0>>), 1, 4) >>

\* The overrides of the codec's calls: the key, the base URLs and the slash.
CodecKwargs ==
  { << <<"encryption_bytestring_key", k>>, <<"base_click_tracking_url", b>>,
       <<"base_open_tracking_url", b>>, <<"append_slash", a>> >> :
    k \in {None, Some(Key1), Some(Key2)},
    b \in {None, Some(BaseSlash), Some(BaseNoSlash)},
    a \in BOOLEAN }

CodecReadKwargs == {kw \in CodecKwargs : ~kw[4][2]}

\* The overrides of the calls that decide where metadata and webhook come
\* from.
MetaKwargs ==
  { << <<"include_default_metadata", i>>, <<"default_metadata", d>>,
       <<"include_webhook_url", j>>, <<"webhook_url", w>> >> :
    i \in BOOLEAN, d \in {None, Some(EmptyDict), Some(MetaA1)},
    j \in BOOLEAN, w \in {None, Some(<<>>), Some(Webhook)} }

Metadatas == {None, Some(EmptyDict), Some(MetaA2B3), Some(MetaRich)}

\* The base URL a call made with these overrides strips: the click and the
\* open base URL are the same text.
BaseOf(kwargs) ==
  With(SelectSeq(kwargs, LAMBDA kv : kv[1] = "base_click_tracking_url"), LAMBDA b :
    IF Len(b) > 0 /\ ~IsNone(b[1][2]) THEN Val(b[1][2]) ELSE <<>>)

\* The ways a request carries the link built last: its data string, the data
\* string after one slash or two, the URL as built, and the data string after
\* a base URL, with or without a slash between them.
LinkForms == {"segment", "slash", "slash2", "url", "prefixed", "prefixed_slash"}

LinkInput(form, base) ==
  CASE form = "segment"        -> link.data_str
    [] form = "slash"          -> <<47>> \o link.data_str
    [] form = "slash2"         -> <<47, 47>> \o link.data_str
    [] form = "url"            -> link.url
    [] form = "prefixed"       -> base \o link.data_str
    [] form = "prefixed_slash" -> base \o <<47>> \o link.data_str

\* What a request may carry, each input with its form: the link built last
\* in the forms FORMS, or, when no link was built, a text of RAW.
Inputs(FORMS, RAW, base) ==
  IF link.op # "none" THEN {<<f, LinkInput(f, base)>> : f \in FORMS}
  ELSE {<<"raw", RAW[k]>> : k \in 1..Len(RAW)}

\* The hrefs of the documents: an http, an https and a scheme-relative
\* link, a mailto and a javascript link, a fragment, a relative path, and a
\* link that already points at the click-tracking base.
HrefHttps == Str(<<"h", "t", "t", "p", "s", ":", "/", "/", "e", "x", "a", "m", "p", "l", "e", ".", "c", "o", "m">>)

HrefSchemeRelative == Str(<<"/", "/", "c">>)

HrefMailto == Str(<<"m", "a", "i", "l", "t", "o", ":", "x", "@", "y", ".", "c", "o", "m">>)

HrefJavascript == Str(<<"j", "a", "v", "a", "s", "c", "r", "i", "p", "t", ":", "v", "(", ")">>)

HrefFragment == Str(<<"#", "t", "o", "p">>)

HrefRelative == Str(<<"/", "p">>)

HrefTracked == BaseSlash \o Str(<<"x", "y", "z">>)

Hrefs ==
  { TrackedUrl, HrefHttps, HrefSchemeRelative, HrefMailto, HrefJavascript,
    HrefFragment, HrefRelative, HrefTracked }

\* <html><head><link href="/p"></head><body>Hi <a href=h1>x</a><p><a
\* href=h2>y</a></p><img src="/p"></body></html>
DocFull(h1, h2) ==
  [ full |-> TRUE,
    els  |-> << Node(TagHtml, EmptyDict, <<>>, <<2, 4>>, <<>>),
                Node(TagHead, EmptyDict, <<>>, <<3>>, <<>>),
                Element(TagLink, << <<Href, HrefRelative>> >>),
                Node(TagBody, EmptyDict, Str(<<"H", "i", " ">>), <<5, 6, 8>>, <<>>),
                Node(TagA, << <<Href, h1>> >>, Str(<<"x">>), <<>>, <<>>),
                Node(TagP, EmptyDict, <<>>, <<7>>, <<>>),
                Node(TagA, << <<Href, h2>> >>, Str(<<"y">>), <<>>, <<>>),
                Element(TagImg, << <<Src, HrefRelative>> >>) >> ]

\* <html><body></body></html>
DocEmptyBody ==
  [ full |-> TRUE,
    els  |-> << Node(TagHtml, EmptyDict, <<>>, <<2>>, <<>>),
                Element(TagBody, EmptyDict) >> ]

\* <p><a href=h>x</a></p>, a fragment of one element: the parser puts it in
\* an html and a body element.
DocOneElement(h) ==
  [ full |-> FALSE,
    els  |-> << Node(TagHtml, EmptyDict, <<>>, <<2>>, <<>>),
                Node(TagBody, EmptyDict, <<>>, <<3>>, <<>>),
                Node(TagP, EmptyDict, <<>>, <<4>>, <<>>),
                Node(TagA, << <<Href, h>> >>, Str(<<"x">>), <<>>, <<>>) >> ]

\* <a href=h1>x</a><p><a href=h2>y</a></p>, a fragment of two elements
DocTwoElements(h1, h2) ==
  [ full |-> FALSE,
    els  |-> << Node(TagHtml, EmptyDict, <<>>, <<2>>, <<>>),
                Node(TagBody, EmptyDict, <<>>, <<3, 4>>, <<>>),
                Node(TagA, << <<Href, h1>> >>, Str(<<"x">>), <<>>, <<>>),
                Node(TagP, EmptyDict, <<>>, <<5>>, <<>>),
                Node(TagA, << <<Href, h2>> >>, Str(<<"y">>), <<>>, <<>>) >> ]

Documents ==
  {DocFull(h1, h2) : h1 \in Hrefs, h2 \in {HrefHttps, HrefMailto, HrefTracked}}
  \cup {DocEmptyBody}
  \cup {DocOneElement(h) : h \in Hrefs}
  \cup {DocTwoElements(h, HrefTracked) : h \in Hrefs}

\* The overrides of adapt_html: the base URLs, set or not, and where the
\* pixel goes.
HtmlKwargs ==
  { << <<"base_click_tracking_url", b>>, <<"base_open_tracking_url", b>>,
       <<"pixel_position", p>> >> :
    b \in {None, Some(BaseSlash)},
    p \in {Str(<<"t", "o", "p">>), Str(<<"b", "o", "t", "t", "o", "m">>), Str(<<"e", "n", "d">>)} }

\* The codec: links are built and read with no Configuration object held,
\* every setting given as an override.
NextCodec ==
  \/ \E kw \in CodecKwargs, u \in {<<>>, TrackedUrl}, m \in Metadatas :
       GetClickTrackingUrl(0, kw, Some(u), m)
  \/ \E kw \in CodecKwargs, m \in Metadatas : GetOpenTrackingUrl(0, kw, m)
  \/ \E kw \in CodecReadKwargs :
       \E x \in Inputs(LinkForms, RawSegments, BaseOf(kw)) :
         GetClickTrackingResult(0, kw, x[1], x[2])
  \/ \E kw \in CodecReadKwargs :
       \E x \in Inputs(LinkForms, RawSegments, BaseOf(kw)) :
         GetOpenTrackingResult(0, kw, x[1], x[2])
  \/ Forget

SpecCodec == Init /\ [][NextCodec]_vars

\* Metadata and webhook: links are built and read in plain mode, the
\* default metadata, the webhook and the two include flags given as
\* overrides, which may differ between building and reading.
NextMeta ==
  \/ \E kw \in MetaKwargs, u \in {<<>>, TrackedUrl},
        m \in {None, Some(EmptyDict), Some(MetaA2B3)} :
       GetClickTrackingUrl(0, kw, Some(u), m)
  \/ \E kw \in MetaKwargs, m \in {None, Some(EmptyDict), Some(MetaA2B3)} :
       GetOpenTrackingUrl(0, kw, m)
  \/ \E kw \in MetaKwargs :
       \E x \in Inputs({"segment"}, <<>>, <<>>) :
         GetClickTrackingResult(0, kw, x[1], x[2])
  \/ \E kw \in MetaKwargs :
       \E x \in Inputs({"segment"}, <<>>, <<>>) :
         GetOpenTrackingResult(0, kw, x[1], x[2])
  \/ Forget

SpecMeta == Init /\ [][NextMeta]_vars

\* What a caller constructs a Configuration with: default metadata or none,
\* a key, none, or a text that is no key, and the base URLs.
InitArgs ==
  { << <<"default_metadata", d>>, <<"encryption_bytestring_key", k>>,
       <<"base_click_tracking_url", Some(BaseSlash)>>,
       <<"base_open_tracking_url", Some(BaseSlash)>> >> :
    d \in {None, Some(MetaA1)}, k \in {None, Some(Key1), Some(BadKey)} }

\* The overrides a Configuration is merged with: none, another key, no key,
\* a text that is no key, encryption_key itself, other default metadata,
\* and a name that is no attribute.
Overrides ==
  { <<>>,
    << <<"encryption_bytestring_key", Some(Key2)>> >>,
    << <<"encryption_bytestring_key", None>> >>,
    << <<"encryption_bytestring_key", Some(BadKey)>> >>,
    << <<"encryption_key", Some(Got(Fernet(Key2)))>> >>,
    << <<"default_metadata", Some(MetaZ0)>> >>,
    << <<"no_such_attribute", Some(Webhook)>> >> }

\* The overrides of the calls that build and read links.
ApiOverrides ==
  { <<>>,
    << <<"encryption_key", Some(Got(Fernet(Key2)))>> >>,
    << <<"default_metadata", Some(MetaZ0)>>, <<"include_default_metadata", TRUE>> >> }

\* A text read as a link: the base64 of "{}" after the base URL.
RawUrl == BaseSlash \o B64Of(JsonTexts[1])

\* The life of Configuration objects: a caller constructs them, merges them
\* with overrides and keeps the copies, changes the default metadata of an
\* object it holds, and builds and reads links and adapts documents with the
\* objects it holds.
Next ==
  \/ \E args \in InitArgs : Construct(args)
  \/ \E i \in 1..Len(cfgs), kw \in Overrides : GetConfiguration(i, kw)
  \/ \E i \in 1..Len(cfgs) : SetDefaultMetadataItem(i, Str(<<"z">>), JInt(0))
  \/ \E i \in 1..Len(cfgs), kw \in ApiOverrides :
       GetClickTrackingUrl(i, kw, Some(TrackedUrl), Some(MetaA2B3))
  \/ \E i \in 1..Len(cfgs), kw \in ApiOverrides :
       GetOpenTrackingUrl(i, kw, Some(MetaA2B3))
  \/ \E i \in 1..Len(cfgs), kw \in ApiOverrides :
       Idle /\ GetClickTrackingResult(i, kw, "raw", RawUrl)
  \/ \E i \in 1..Len(cfgs), kw \in ApiOverrides :
       Idle /\ GetOpenTrackingResult(i, kw, "raw", RawUrl)
  \/ \E i \in 1..Len(cfgs), kw \in ApiOverrides :
       Idle /\ GetClickTrackingUrlPath(i, kw, RawUrl)
  \/ \E i \in 1..Len(cfgs), kw \in ApiOverrides :
       Idle /\ GetOpenTrackingUrlPath(i, kw, RawUrl)
  \/ \E i \in 1..Len(cfgs), kw \in ApiOverrides :
       AdaptHtml(i, kw, DocFull(HrefHttps, HrefTracked), Some(MetaA2B3), TRUE, TRUE,
                 "None")
  \/ Forget

Spec == Init /\ [][Next]_vars

\* ------------------------------------------------------------------------
\* Properties of the codec
\* ------------------------------------------------------------------------

\* A link or a text was read: res holds the outcome of
\* get_click_tracking_result or get_open_tracking_result.
ResultRead == res.op \in {"click", "open"}

\* The link built last was read, under these two keys.
ReadUnder(kb, kr) ==
  /\ link.op # "none"
  /\ ResultRead
  /\ link.cfg.encryption_bytestring_key = kb
  /\ res.cfg.encryption_bytestring_key = kr

SameKey == res.cfg.encryption_bytestring_key = link.cfg.encryption_bytestring_key

\* C1: a click link built from a tracked URL u and a metadata mapping m, with
\* no default metadata, and read back as its data string under the key it
\* was built with (or under none when it was built with none) gives a
\* TrackingResult whose tracked_url is u and whose metadata is m.
C1_RoundTrip ==
  ( /\ link.op = "click" /\ ResultRead /\ res.form = "segment"
    /\ Truthy(link.url_to_track) /\ ~IsNone(link.metadata)
    /\ SameKey )
  => /\ res.out.ok
     /\ Got(res.out).tracked_url = Some(JStr(Val(link.url_to_track)))
     /\ DictEq(Got(res.out).metadata, Val(link.metadata))

\* An encrypted click link with strings to escape and nested values was read
\* back under its key.
C1_Witness ==
  /\ ReadUnder(Some(Key1), Some(Key1))
  /\ link.op = "click" /\ res.form = "segment"
  /\ link.url_to_track = Some(TrackedUrl) /\ link.metadata = Some(MetaRich)
  /\ res.out.ok

\* C2: a link read under another key than the one it was built with, under
\* no key when it was built with one, or under a key when it was built with
\* none, raises: no TrackingResult is returned.
C2_KeyMismatchFails ==
  (link.op # "none" /\ ResultRead /\ ~SameKey) => ~res.out.ok

\* A link built under one key was read under another, and the token was
\* refused.
C2_Witness ==
  /\ ReadUnder(Some(Key1), Some(Key2))
  /\ res.form = "segment"
  /\ res.out = Raise("InvalidToken")

\* C8: every TrackingResult returned has exactly one of is_open_tracking and
\* is_click_tracking true, and has tracked_url set only when
\* is_click_tracking is true.
C8_UrlOnlyWhenClick ==
  (ResultRead /\ res.out.ok)
  => /\ Got(res.out).is_open_tracking # Got(res.out).is_click_tracking
     /\ ~IsNone(Got(res.out).tracked_url) => Got(res.out).is_click_tracking

\* The base URL the call that read the link strips.
ReadBase ==
  IF res.op = "click" THEN res.cfg.base_click_tracking_url
  ELSE res.cfg.base_open_tracking_url

\* The input without the base URL, when it starts with it.
WithoutBase(input, base) ==
  IF Truthy(base) /\ StartsWith(input, Val(base))
    THEN DropFirst(input, Len(Val(base))) ELSE input

\* What is left without one leading slash, when there is one.
WithoutSlash(path) ==
  IF Len(path) > 0 /\ path[1] = 47 THEN Tail(path) ELSE path

\* C9: the segment decoded is the input without the configured base URL,
\* when the input starts with it, and then without one leading slash, when
\* there is one; an input with neither is decoded as it is.
C9_SegmentExtraction ==
  ResultRead
  => /\ res.path = WithoutBase(res.input, ReadBase)
     /\ res.out = ResultOfSegment([res.cfg EXCEPT !.default_metadata = 0], <<>>,
                                  WithoutSlash(WithoutBase(res.input, ReadBase)),
                                  None, res.op = "open", 0)

\* A link was read from the data string after the base URL, and from the
\* data string alone the result is the same.
C9_Witness ==
  /\ res.op = "click" /\ res.form = "prefixed"
  /\ res.cfg.base_click_tracking_url = Some(BaseSlash)
  /\ res.input = BaseSlash \o link.data_str
  /\ res.path = link.data_str
  /\ res.out.ok

\* A text of URL-safe base64: characters of the alphabet in groups of four,
\* the last group ending with at most two "=".
IsBase64Url(s) ==
  /\ Len(s) % 4 = 0
  /\ \A i \in 1..Len(s) :
       \/ s[i] \in {45, 95} \/ IsDigit(s[i]) \/ IsAlpha(s[i])
       \/ /\ s[i] = PadChar
          /\ i >= Len(s) - 1
          /\ \A j \in (i + 1)..Len(s) : s[j] = PadChar

\* C10: without a key, a segment that is not well-formed base64, or whose
\* decoded bytes are not the JSON text of an object, raises: no
\* TrackingResult is returned.
C10_RejectsBadInput ==
  (ResultRead /\ res.form = "raw" /\ IsNone(res.cfg.encryption_key))
  => /\ ~IsBase64Url(res.input) => ~res.out.ok
     /\ res.out.ok => \E k \in 1..Len(JsonTexts) :
                        /\ JsonTexts[k][1] = 123
                        /\ JsonLoads(JsonTexts[k]).ok
                        /\ res.input = B64Of(JsonTexts[k])

\* ------------------------------------------------------------------------
\* Properties of the payload and of the result
\* ------------------------------------------------------------------------

\* The dict of an optional dict, None read as empty.
OrEmpty(o) == IF IsNone(o) THEN EmptyDict ELSE Val(o)

\* d is the dict lower overlaid with the dict upper: the keys of both, with
\* the value of upper wherever it has the key.
IsOverlay(d, lower, upper) ==
  /\ DictKeys(d) = DictKeys(lower) \cup DictKeys(upper)
  /\ \A k \in DictKeys(d) :
       DictGet(d, k) = IF DictHas(upper, k) THEN DictGet(upper, k)
                       ELSE DictGet(lower, k)

\* The metadata of a payload, empty when it has none.
PayloadMetadata(data) ==
  IF DictHas(data, KeyMetadata) THEN DictGet(data, KeyMetadata)[2] ELSE EmptyDict

\* C5: the payload of a link has "url" exactly when a tracked URL is given
\* (a non-empty one), and then it is that URL; its metadata is the default
\* metadata, counted only when include_default_metadata is true, overlaid
\* with the extra metadata; it has "webhook" exactly when include_webhook_url
\* is true and webhook_url is set (to a non-empty text); a key that does not
\* apply is absent, and no key has a null value.
C5_PayloadBuilt ==
  link.op # "none"
  => /\ DictHas(link.data, KeyUrl) <=> Truthy(link.url_to_track)
     /\ DictHas(link.data, KeyUrl)
          => DictGet(link.data, KeyUrl) = JStr(Val(link.url_to_track))
     /\ IsOverlay(PayloadMetadata(link.data),
                  IF link.cfg.include_default_metadata
                    THEN OrEmpty(link.cfg.default_metadata) ELSE EmptyDict,
                  OrEmpty(link.metadata))
     /\ DictHas(link.data, KeyMetadata)
          => /\ Tag(DictGet(link.data, KeyMetadata)) = "obj"
             /\ PayloadMetadata(link.data) # EmptyDict
     /\ DictHas(link.data, KeyWebhook)
          <=> (link.cfg.include_webhook_url /\ Truthy(link.cfg.webhook_url))
     /\ DictHas(link.data, KeyWebhook)
          => DictGet(link.data, KeyWebhook) = JStr(Val(link.cfg.webhook_url))
     /\ DictKeys(link.data) \subseteq {KeyUrl, KeyMetadata, KeyWebhook}
     /\ \A i \in 1..Len(link.data) : link.data[i][2] # JNull

\* A click link was built with default metadata included, extra metadata
\* that collides with it, and a webhook.
C5_Witness ==
  /\ link.op = "click"
  /\ link.cfg.include_default_metadata
  /\ link.cfg.default_metadata = Some(MetaA1)
  /\ link.metadata = Some(MetaA2B3)
  /\ link.cfg.include_webhook_url
  /\ link.cfg.webhook_url = Some(Webhook)
  /\ DictKeys(link.data) = {KeyUrl, KeyMetadata, KeyWebhook}

\* C6: the result's metadata is the local default_metadata when
\* include_default_metadata is false, and empty when it is true, overlaid
\* with the payload's metadata; its webhook_url is the payload's "webhook"
\* when include_webhook_url is true and the local webhook_url otherwise; its
\* tracked_url is the payload's "url".
C6_ResultResolved ==
  (link.op # "none" /\ ResultRead)
  => /\ res.out.ok
     /\ IsOverlay(Got(res.out).metadata,
                  IF res.cfg.include_default_metadata THEN EmptyDict
                  ELSE OrEmpty(res.cfg.default_metadata),
                  PayloadMetadata(link.data))
     /\ Got(res.out).webhook_url =
          IF res.cfg.include_webhook_url
            THEN IF DictHas(link.data, KeyWebhook)
                   THEN Some(DictGet(link.data, KeyWebhook)) ELSE None
            ELSE IF IsNone(res.cfg.webhook_url) THEN None
                 ELSE Some(JStr(Val(res.cfg.webhook_url)))
     /\ Got(res.out).tracked_url =
          IF DictHas(link.data, KeyUrl) THEN Some(DictGet(link.data, KeyUrl))
          ELSE None

\* A link that carries metadata and a webhook was read by a configuration
\* that takes the metadata from its own defaults as well and the webhook
\* from itself.
C6_Witness ==
  /\ link.op = "click" /\ res.op = "click"
  /\ DictKeys(link.data) = {KeyUrl, KeyMetadata, KeyWebhook}
  /\ ~res.cfg.include_default_metadata
  /\ res.cfg.default_metadata = Some(MetaA1)
  /\ ~res.cfg.include_webhook_url
  /\ res.cfg.webhook_url = None
  /\ res.out.ok
  /\ Got(res.out).webhook_url = None
  /\ DictKeys(Got(res.out).metadata) = {Str(<<"a">>), Str(<<"b">>)}

\* {"b": 3}
MetaB3 == << <<Str(<<"b">>), JInt(3)>> >>

\* {"a": 1, "b": 3}
MetaA1B3 == << <<Str(<<"a">>), JInt(1)>>, <<Str(<<"b">>), JInt(3)>> >>

\* A link was built with default metadata {"a": 1} and extra metadata
\* {"a": 2, "b": 3}.
MergeExample ==
  /\ link.op # "none"
  /\ link.cfg.default_metadata = Some(MetaA1)
  /\ link.metadata = Some(MetaA2B3)

\* C7 as the specification states it: with include_default_metadata true the
\* payload's metadata is {"a": 2, "b": 3}; with include_default_metadata
\* false it is {"b": 3}, and the result read with the same configuration has
\* metadata {"a": 1, "b": 3}.
C7_MergePolicyStated ==
  MergeExample
  => /\ link.cfg.include_default_metadata
          => DictEq(PayloadMetadata(link.data), MetaA2B3)
     /\ ~link.cfg.include_default_metadata
          => /\ DictEq(PayloadMetadata(link.data), MetaB3)
             /\ (ResultRead /\ res.cfg = link.cfg)
                  => /\ res.out.ok
                     /\ DictEq(Got(res.out).metadata, MetaA1B3)

\* C7: with include_default_metadata true the payload's metadata is
\* {"a": 2, "b": 3}; with include_default_metadata false it is
\* {"a": 2, "b": 3} as well, the extra metadata whole, and the result read
\* with the same configuration has metadata {"a": 2, "b": 3}: the payload's
\* value of "a" replaces the local default.
C7_MergePolicy ==
  MergeExample
  => /\ DictEq(PayloadMetadata(link.data), MetaA2B3)
     /\ (~link.cfg.include_default_metadata /\ ResultRead /\ res.cfg = link.cfg)
          => /\ res.out.ok
             /\ DictEq(Got(res.out).metadata, MetaA2B3)

\* The link of the example, built without the default metadata, was read
\* with the configuration that built it.
C7_Witness ==
  /\ MergeExample
  /\ ~link.cfg.include_default_metadata
  /\ ResultRead
  /\ res.cfg = link.cfg
  /\ res.out.ok

\* ------------------------------------------------------------------------
\* Properties of Configuration objects
\* ------------------------------------------------------------------------

\* The attributes of the i-th Configuration the caller holds, with the
\* contents of its default metadata.
ViewAt(i) == View(World(cfgs, dicts, i))

\* The caller changes the default metadata of the i-th Configuration.
CallerSets(i) == SetDefaultMetadataItem(i, Str(<<"z">>), JInt(0))

\* C3: no step changes a Configuration the caller holds, in any attribute or
\* in the contents of its default_metadata, but the caller's own change of
\* that Configuration's default metadata: not a merge, not a call that
\* builds or reads a link, extracts a path or adapts a document, and not a
\* change made to the default metadata of another Configuration, a merged
\* copy among them.
C3_NeverMutated ==
  [][ \A i \in 1..Len(cfgs) :
        ViewAt(i)' # ViewAt(i)
        => /\ CallerSets(i)
           /\ \A j \in 1..Len(cfgs) : j # i => ~CallerSets(j) ]_vars

\* A Configuration with default metadata was merged, the default metadata of
\* the copy was changed, and the original has the default metadata it was
\* constructed with.
C3_Witness ==
  \E j \in 1..Len(cfgs) :
    /\ origin[j] # 0
    /\ ViewAt(origin[j]).default_metadata = Some(MetaA1)
    /\ ViewAt(j).default_metadata = Some(Append(MetaA1, <<Str(<<"z">>), JInt(0)>>))

\* The encryption_key of the attributes c is the key derived from their
\* encryption_bytestring_key, and absent when that is not set.
KeyDerived(c) ==
  c.encryption_key = IF Truthy(c.encryption_bytestring_key)
                       THEN Some(Got(Fernet(Val(c.encryption_bytestring_key))))
                       ELSE None

\* C4: every Configuration, constructed or merged, the ones merged for a
\* call among them, has an encryption_key exactly when its
\* encryption_bytestring_key is set, and it is the key derived from it.
C4_DerivedKey ==
  /\ \A i \in 1..Len(cfgs) : KeyDerived(cfgs[i])
  /\ link.op # "none" => KeyDerived(link.cfg)
  /\ res.op # "none" => KeyDerived(res.cfg)
  /\ page.op # "none" => KeyDerived(page.cfg)

\* A Configuration with a key was merged with another key, the copy has the
\* key derived from the new one, and a link was built under the first key.
C4_Witness ==
  /\ \E j \in 1..Len(cfgs) :
       /\ origin[j] # 0
       /\ cfgs[origin[j]].encryption_bytestring_key = Some(Key1)
       /\ cfgs[j].encryption_bytestring_key = Some(Key2)
       /\ cfgs[j].encryption_key = Some(Got(Fernet(Key2)))
  /\ link.op # "none"
  /\ link.cfg.encryption_bytestring_key = Some(Key1)
  /\ link.cfg.encryption_key = Some(Got(Fernet(Key1)))

\* ------------------------------------------------------------------------
\* Links carried as full URLs
\* ------------------------------------------------------------------------

\* The overrides of a configuration with both base URLs set.
UrlKwargs == {kw \in CodecKwargs : ~IsNone(kw[2][2])}

\* Links are built with both base URLs set, ending with a slash or not, with
\* and without append_slash and a key, and the URL returned is read back in
\* full with any of these configurations.
NextUrl ==
  \/ \E kw \in UrlKwargs, m \in Metadatas :
       GetClickTrackingUrl(0, kw, Some(TrackedUrl), m)
  \/ \E kw \in UrlKwargs, m \in Metadatas : GetOpenTrackingUrl(0, kw, m)
  \/ \E kw \in UrlKwargs :
       \E x \in Inputs({"url"}, <<>>, <<>>) :
         GetClickTrackingResult(0, kw, x[1], x[2])
  \/ \E kw \in UrlKwargs :
       \E x \in Inputs({"url"}, <<>>, <<>>) :
         GetOpenTrackingResult(0, kw, x[1], x[2])
  \/ Forget

SpecUrl == Init /\ [][NextUrl]_vars

\* The base URL the link built last was joined to.
LinkBase ==
  IF link.op = "click" THEN link.cfg.base_click_tracking_url
  ELSE link.cfg.base_open_tracking_url

\* The link built last was read back as the URL returned, by the call of
\* its kind and with the configuration it was built with.
UrlReadBack ==
  /\ link.op # "none" /\ res.op = link.op
  /\ res.form = "url" /\ res.cfg = link.cfg

\* C14: with the base URL set, ending with "/" or not, and append_slash
\* false or true, the URL get_click_tracking_url(u, m) returns starts with
\* base_click_tracking_url, and get_click_tracking_result of that URL with
\* the same configuration returns tracked_url u and metadata m; likewise
\* for get_open_tracking_url and get_open_tracking_result with
\* base_open_tracking_url.
C14_FullUrlRoundTrip ==
  /\ (link.op # "none" /\ Truthy(LinkBase)) => StartsWith(link.url, Val(LinkBase))
  /\ (UrlReadBack /\ Truthy(LinkBase))
     => /\ res.out.ok
        /\ Got(res.out).tracked_url
             = (IF link.op = "click" THEN Some(JStr(Val(link.url_to_track))) ELSE None)
        /\ DictEq(Got(res.out).metadata, OrEmpty(link.metadata))

\* C14, for a base URL that ends with "/" and append_slash false: the URL
\* returned is the base URL followed by the data string, and read back with
\* the same configuration it gives the tracked URL and the metadata.
C14_RoundTripSlashBase ==
  ( /\ link.op # "none" /\ Truthy(LinkBase)
    /\ Val(LinkBase)[Len(Val(LinkBase))] = 47
    /\ ~link.cfg.append_slash )
  => /\ link.url = Val(LinkBase) \o link.data_str
     /\ UrlReadBack
        => /\ res.out.ok
           /\ Got(res.out).tracked_url
                = (IF link.op = "click" THEN Some(JStr(Val(link.url_to_track)))
                   ELSE None)
           /\ DictEq(Got(res.out).metadata, OrEmpty(link.metadata))

\* An encrypted click link joined to a base URL that ends with "/" was read
\* back in full.
C14_Witness ==
  /\ UrlReadBack /\ link.op = "click"
  /\ link.cfg.base_click_tracking_url = Some(BaseSlash)
  /\ ~link.cfg.append_slash
  /\ link.cfg.encryption_bytestring_key = Some(Key1)
  /\ link.metadata = Some(MetaRich)
  /\ res.out.ok

\* ------------------------------------------------------------------------
\* Documents adapted
\* ------------------------------------------------------------------------

\* Documents are adapted with no Configuration object held, every setting
\* given as an override.
NextHtml ==
  \/ \E kw \in HtmlKwargs, d \in Documents, m \in {None, Some(MetaA2B3)},
        click_tracking \in BOOLEAN, open_tracking \in BOOLEAN, lxml \in LxmlBuilds :
       AdaptHtml(0, kw, d, m, click_tracking, open_tracking, lxml)
  \/ Forget

SpecHtml == Init /\ [][NextHtml]_vars

\* ------------------------------------------------------------------------
\* Properties of the documents adapted
\* ------------------------------------------------------------------------

RECURSIVE Elements(_)
RECURSIVE ElementsEach(_, _)
\* The elements a text spells, in document order.
Elements(x) == <<x>> \o ElementsEach(x.children, 1)

ElementsEach(children, i) ==
  IF i > Len(children) THEN <<>>
  ELSE Elements(children[i]) \o ElementsEach(children, i + 1)

\* The anchors with an href among them.
AnchorsOf(x) ==
  SelectSeq(Elements(x), LAMBDA e : e.tag = TagA /\ DictHas(e.attrib, Href))

\* A document was adapted.
PageAdapted == page.op = "adapt"

\* The text of the tree adapt_html parsed, as it was before any change.
PageBefore == tostring(fromstring(page.html).els, fromstring(page.html).tree)

\* The configuration adapt_html merged, as a Configuration with no default
\* metadata.
PageSelf == [page.cfg EXCEPT !.default_metadata = 0]

\* Configuration.get_click_tracking_url of a link and
\* Configuration.get_open_tracking_url under that configuration.
PageClickUrl(href) ==
  get_click_tracking_url_from_data_str(PageSelf,
    get_url_encoded_data_str(PageSelf,
      get_data_to_embed(PageSelf, <<>>, Some(href), page.extra_metadata)))

PageOpenUrl ==
  get_open_tracking_url_from_data_str(PageSelf,
    get_url_encoded_data_str(PageSelf,
      get_data_to_embed(PageSelf, <<>>, None, page.extra_metadata)))

\* The href starts with "http://", "https://" or "//" and not with the
\* click-tracking base URL, when one is set.
Qualifies(href) ==
  /\ \/ StartsWith(href, Str(<<"h", "t", "t", "p", ":", "/", "/">>))
     \/ StartsWith(href, Str(<<"h", "t", "t", "p", "s", ":", "/", "/">>))
     \/ StartsWith(href, Str(<<"/", "/">>))
  /\ ~ ( /\ Truthy(page.cfg.base_click_tracking_url)
         /\ StartsWith(href, Val(page.cfg.base_click_tracking_url)) )

\* C11: with click tracking on, the text returned has the anchors of the
\* text given, in the same order, and an anchor's href is its
\* click-tracking URL if and only if the href given starts with "http://",
\* "https://" or "//" and does not start with base_click_tracking_url;
\* relative links, mailto:, javascript: and fragment links and links at the
\* click-tracking base keep their href, and so do the link attributes of
\* other elements.  Without open tracking the call always returns.
C11_LinkFiltering ==
  (PageAdapted /\ page.click_tracking)
  => /\ ~page.open_tracking => page.out.ok
     /\ page.out.ok
        => LET before == AnchorsOf(PageBefore)
               after  == AnchorsOf(Got(page.out))
               others(x) == SelectSeq(Elements(x), LAMBDA e : e.tag \in {TagLink})
           IN  /\ Len(after) = Len(before)
               /\ \A k \in 1..Len(before) :
                    LET href == DictGet(before[k].attrib, Href)
                    IN  /\ DictGet(after[k].attrib, Href)
                             = (IF Qualifies(href) THEN PageClickUrl(href) ELSE href)
                        /\ PageClickUrl(href) # href
               /\ others(Got(page.out)) = others(PageBefore)

\* A whole document was adapted with the click-tracking base set: its https
\* link was replaced and its link at the base was not.
C11_Witness ==
  /\ PageAdapted /\ page.click_tracking /\ page.out.ok
  /\ page.html = DocFull(HrefHttps, HrefTracked)
  /\ page.cfg.base_click_tracking_url = Some(BaseSlash)
  /\ LET after == AnchorsOf(Got(page.out))
     IN  /\ DictGet(after[1].attrib, Href) = PageClickUrl(HrefHttps)
         /\ StartsWith(DictGet(after[1].attrib, Href), BaseSlash)
         /\ DictGet(after[2].attrib, Href) = HrefTracked

\* A mailto link was left as it was.
C11_WitnessMailto ==
  /\ PageAdapted /\ page.click_tracking /\ page.out.ok
  /\ page.html = DocFull(HrefMailto, HrefHttps)
  /\ DictGet(AnchorsOf(Got(page.out))[1].attrib, Href) = HrefMailto

\* The images of a text that the text given did not have.
NewImages ==
  SelectSeq(Elements(Got(page.out)),
            LAMBDA e : /\ e.tag = TagImg
                       /\ \A k \in 1..Len(Elements(PageBefore)) :
                            Elements(PageBefore)[k] # e)

\* The element is the tracking image: an img whose src is the open-tracking
\* URL.
IsPixel(e) ==
  e.tag = TagImg /\ DictHas(e.attrib, Src) /\ DictGet(e.attrib, Src) = PageOpenUrl

\* C12: with open tracking on, the text returned has exactly one image more
\* than the text given, the tracking image; it is the first child of the
\* body when pixel_position is "top" and the last child of the body for any
\* other value; when the document has no body element (a fragment), it is
\* the first child of the root.
C12_PixelPlacement ==
  (PageAdapted /\ page.open_tracking)
  => /\ page.out.ok
     /\ LET out    == Got(page.out)
            bodies == SelectSeq(Elements(out), LAMBDA e : e.tag = TagBody)
            inside == IF Len(bodies) > 0 THEN bodies[1].children ELSE out.children
        IN  /\ Len(NewImages) = 1
            /\ Len(inside) > 0
            /\ IF Len(bodies) = 0 \/ page.cfg.pixel_position = Str(<<"t", "o", "p">>)
                 THEN IsPixel(inside[1])
                 ELSE IsPixel(inside[Len(inside)])

\* C12, for a document with a body element: the call returns, the text has
\* exactly one image more, and it is the first child element of the body
\* for "top" and the last for any other value.
C12_PixelInBody ==
  (PageAdapted /\ page.open_tracking /\ page.tree = 1)
  => /\ page.out.ok
     /\ LET bodies == SelectSeq(Elements(Got(page.out)), LAMBDA e : e.tag = TagBody)
            inside == bodies[1].children
        IN  /\ Len(NewImages) = 1
            /\ IF page.cfg.pixel_position = Str(<<"t", "o", "p">>)
                 THEN IsPixel(inside[1])
                 ELSE IsPixel(inside[Len(inside)])

\* C13: the image adapt_html inserts has the open-tracking URL as its src,
\* width "0", height "0", border "0" and an empty alt.
C13_PixelAttributes ==
  (PageAdapted /\ page.open_tracking /\ page.out.ok)
  => \A k \in 1..Len(NewImages) :
       /\ IsPixel(NewImages[k])
       /\ DictEq(NewImages[k].attrib, DictSet(DEFAULT_ATTRIBUTES, Src, PageOpenUrl))

\* C13, as far as it holds: the image inserted has the open-tracking URL as
\* its src.
C13_PixelSrc ==
  (PageAdapted /\ page.open_tracking /\ page.out.ok)
  => \A k \in 1..Len(NewImages) : IsPixel(NewImages[k])

\* A whole document was given a tracking image.
C13_Witness ==
  /\ PageAdapted /\ page.open_tracking /\ page.out.ok
  /\ Len(NewImages) = 1

====
